---- MODULE Spec2Model ----
(***************************************************************************)
(* A model of the WordSeek word-guessing bot.  The repository holds two    *)
(* variants of the same game: src/B.py (document store, teams, bans,       *)
(* achievements) and src/wordseek.py (embedded relational store).  The     *)
(* variable "variant" says which program is running: "B" or "W".           *)
(*                                                                         *)
(* Conventions of the model:                                               *)
(*  - every handler is an asyncio coroutine run on one event loop; the     *)
(*    code between two awaits runs without interleaving, so each action    *)
(*    is one such segment, and the clock does not move inside a segment;   *)
(*  - the stores (the Mongo collections, the SQLite tables) are taken at   *)
(*    their interface: one call takes effect at once and a record reads    *)
(*    back as it was written;                                              *)
(*  - the chat platform (sending a reply, looking up a user's name, the    *)
(*    admin check) is a collaborator: the message a handler sends is the   *)
(*    "reply" field of its effect, the admin check is an input of it.      *)
(***************************************************************************)
EXTENDS Integers, Sequences, FiniteSets, TLC

VARIABLES
    variant,          \* "B" (src/B.py) or "W" (src/wordseek.py)
    games_coll,       \* chat -> the game documents/rows with that chat_id, oldest first
    scores_coll,      \* the score documents (B) or rows (W), in insertion order
    stats_coll,       \* player -> the player's stats record, <<>> when there is none
    bot_stats,        \* the process-wide aggregate record (its last_updated stamp is not kept)
    user_last_guess,  \* the rate limiter: player -> time of the armed gate, or NoTime
    tasks,            \* the deferred game_tasks / timeout_game coroutines
    now,              \* the wall clock, in seconds
    win_log,          \* history: the wins recorded, with the day of each
    commands,         \* how many /settings, /ban and /kick commands have been carried out
    hint_in,          \* SpecHint: the <<guess, target>> the hint is asked for
    hint_out,         \* SpecHint: the hint returned
    lb_out,           \* SpecLB: what the last leaderboard query returned
    rec_pc            \* SpecLedger: where each concurrent win recorder stands

vars == <<variant, games_coll, scores_coll, stats_coll, bot_stats, user_last_guess,
          tasks, now, win_log, commands, hint_in, hint_out, lb_out, rec_pc>>

-----------------------------------------------------------------------------
(* The universe of the model. *)

Chats == {"c1", "c2"}
Players == {1, 2}
Letters == {"a", "b"}
Periods == {"today", "week", "month", "all_time"}
Variants == {"B", "W"}

\* DEFAULT_SETTINGS["word_length"] is 5 and ["max_guesses"] is 30 in the code;
\* the model runs the same code with shorter words and fewer guesses.
WordLen == 2
DefaultMaxGuesses == 2

NoTime == -1
None == "None"

Max(a, b) == IF a >= b THEN a ELSE b
Min(a, b) == IF a <= b THEN a ELSE b

RECURSIVE SumSeq(_)
SumSeq(s) == IF s = <<>> THEN 0 ELSE Head(s) + SumSeq(Tail(s))

RECURSIVE SumOver(_, _)
\* the sum of f[x] over the finite set S
SumOver(f, S) ==
    IF S = {} THEN 0
    ELSE LET x == CHOOSE y \in S : TRUE IN f[x] + SumOver(f, S \ {x})

-----------------------------------------------------------------------------
(* Message text: guess = message.text.lower().strip() *)

UpperOf(ch) == IF ch = "a" THEN "A" ELSE IF ch = "b" THEN "B" ELSE ch
LowerOf(ch) == IF ch = "A" THEN "a" ELSE IF ch = "B" THEN "b" ELSE ch

lower(text) == [i \in 1..Len(text) |-> LowerOf(text[i])]

RECURSIVE lstrip(_)
lstrip(text) ==
    IF text # <<>> /\ Head(text) = " " THEN lstrip(Tail(text)) ELSE text

RECURSIVE rstrip(_)
rstrip(text) ==
    IF text # <<>> /\ text[Len(text)] = " "
    THEN rstrip(SubSeq(text, 1, Len(text) - 1))
    ELSE text

strip(text) == rstrip(lstrip(text))

isalpha(text) ==
    /\ text # <<>>
    /\ \A i \in 1..Len(text) : text[i] \in Letters \cup {"A", "B"}

\* every word of n letters there is
Universe(n) == [1..n -> Letters]

\* a word the service returns to a later request though the first answer lacked it
Unlisted == [i \in 1..WordLen |-> "b"]

\* fetch_words(): what the word service answers.  WORDS is the answer the program
\* got when it started (B) or the content of words.txt (W); NEW_WORDS is the answer
\* to the request new_game (B) makes for each game.
WORDS == {w \in Universe(WordLen) : w[1] # w[WordLen]}
NEW_WORDS == {[i \in 1..WordLen |-> IF i = 1 THEN "a" ELSE "b"], Unlisted}

\* the texts players send: words, and words capitalised, padded, cut short,
\* with a digit for a letter, or with a digit behind
GuessTexts ==
    Universe(WordLen) \cup
    UNION { { [w EXCEPT ![1] = UpperOf(w[1])],
              <<" ">> \o w,
              SubSeq(w, 1, WordLen - 1),
              [w EXCEPT ![WordLen] = "1"],
              w \o <<"1">> } : w \in WORDS \cap NEW_WORDS }

-----------------------------------------------------------------------------
(* get_hint: one pass over the guess, consuming letters of target_list *)

Correct == "Correct"    \* the green square
Present == "Present"    \* the yellow square
Absent == "Absent"      \* the red square

\* target_list.index(ch)
index(target_list, ch) ==
    CHOOSE j \in 1..Len(target_list) :
        /\ target_list[j] = ch
        /\ \A k \in 1..(j - 1) : target_list[k] # ch

RECURSIVE hint_loop(_, _, _, _)
hint_loop(guess, target, target_list, i) ==
    IF i > Len(guess) THEN <<>>
    ELSE IF guess[i] = target[i]
    THEN <<Correct>> \o hint_loop(guess, target, [target_list EXCEPT ![i] = None], i + 1)
    ELSE IF \E j \in 1..Len(target_list) : target_list[j] = guess[i]
    THEN <<Present>> \o hint_loop(guess, target,
             [target_list EXCEPT ![index(target_list, guess[i])] = None], i + 1)
    ELSE <<Absent>> \o hint_loop(guess, target, target_list, i + 1)

get_hint(guess, target) == hint_loop(guess, target, target, 1)

-----------------------------------------------------------------------------
(* Values and records of the stores *)

\* RATE_LIMIT, seconds
RATE_LIMIT == 2
\* per_page, the default page size of get_leaderboard
per_page == 5

\* DEFAULT_SETTINGS["timeout"] is 3600 seconds in the code
DefaultTimeout == 2
\* a day has 86400 seconds; the model's day is shorter
SecondsPerDay == 2
\* the thresholds of "ten_wins" (10) and "hundred_guesses" (100), scaled
TenWins == 2
HundredGuesses == 2

\* bounds of the exploration
MaxGames == 2
MaxTime == 2
MaxCommands == 1

\* a Python int / a Python str, kept apart as Python keeps them apart
IntV(n) == [t |-> "int", n |-> n, s |-> ""]
StrV(s) == [t |-> "str", n |-> 0, s |-> s]

\* d[k] = v on a dict
SetKey(d, k, v) == [x \in (DOMAIN d) \cup {k} |-> IF x = k THEN v ELSE d[x]]

\* d.get(k, default)
GetKey(d, k, default) == IF k \in DOMAIN d THEN d[k] ELSE default

DEFAULT_SETTINGS_B ==
    [max_guesses |-> IntV(DefaultMaxGuesses),
     word_length |-> IntV(WordLen),
     timeout     |-> IntV(DefaultTimeout),
     theme       |-> StrV("default"),
     mode        |-> StrV("standard")]

DEFAULT_SETTINGS_W ==
    [max_guesses |-> IntV(DefaultMaxGuesses),
     word_length |-> IntV(WordLen),
     timeout     |-> IntV(DefaultTimeout)]

\* the calendar of datetime.now()
DayOf(t) == t \div SecondsPerDay
WeekOf(t) == DayOf(t) \div 7
MonthOf(t) == DayOf(t) \div 30

\* str(x) as stored in a TEXT column and eval(text) of it; "" is the empty text
EmptyText == <<"text">>
str(x) == <<"text", x>>
eval(text) == text[2]

\* the four period counters of one ledger entry
ZeroCounters == [p \in Periods |-> 0]

\* a message the bot sends; the unused fields stay at their defaults
NoReply ==
    [kind |-> "none", chat |-> "", user |-> 0, word |-> <<>>, hint |-> <<>>,
     left |-> 0, unlocked |-> <<>>]

Reply(kind, chat, user) == [NoReply EXCEPT !.kind = kind, !.chat = chat, !.user = user]

\* find_one({"chat_id": c}) is truthy
HasGame(c) == games_coll[c] # <<>>
\* the document find_one returns
Game(c) == Head(games_coll[c])
\* a delete_one that deletes nothing
delete_none(coll, c) == coll
\* delete_one({"chat_id": c}) / DELETE FROM games WHERE chat_id = c
delete_one(coll, c) == [coll EXCEPT ![c] = IF @ = <<>> THEN @ ELSE Tail(@)]
\* insert_one(doc)
insert_one(coll, c, doc) == [coll EXCEPT ![c] = Append(@, doc)]
\* update_one({"chat_id": c}, {"$set": fields}) without upsert
update_one_set(coll, c, doc) == [coll EXCEPT ![c] = IF @ = <<>> THEN @ ELSE <<doc>> \o Tail(@)]

-----------------------------------------------------------------------------
(* The score ledger *)

\* the positions of the documents/rows of coll that belong to user u (and chat c)
DocsOf(coll, u) == {i \in 1..Len(coll) : coll[i].user_id = u}
RowsOf(coll, u, c) == {i \in 1..Len(coll) : coll[i].user_id = u /\ coll[i].chat_id = c}

First(S) == CHOOSE i \in S : \A j \in S : i <= j

\* the "$inc" document of update_score (B): all_time by 1, each period by 1 when the
\* date / ISO week / month of `t` (now = datetime.now()) equals that of `tw`
\* (the datetime.now() read again while the update is built)
IncOf(t, tw) ==
    [all_time |-> 1,
     today    |-> IF DayOf(t) = DayOf(tw) THEN 1 ELSE 0,
     week     |-> IF WeekOf(t) = WeekOf(tw) THEN 1 ELSE 0,
     month    |-> IF MonthOf(t) = MonthOf(tw) THEN 1 ELSE 0]

\* an update that "$set"s the counters to the increment
ApplySet(doc, c, inc, mode, team) ==
    [doc EXCEPT !.scores = SetKey(@, c, inc), !.global = inc]

\* a "$inc" that credits the win of any team to team1
ApplyIncTeam1(doc, c, inc, mode, team) ==
    [doc EXCEPT
        !.scores = SetKey(@, c, [p \in Periods |-> GetKey(@, c, ZeroCounters)[p] + inc[p]]),
        !.global = [p \in Periods |-> @[p] + inc[p]],
        !.teams  = IF mode = StrV("team") /\ team # None
                   THEN SetKey(@, "team1", GetKey(@, "team1", 0) + 1)
                   ELSE @]

\* what "$inc" does to one score document (B)
ApplyInc(doc, c, inc, mode, team) ==
    [doc EXCEPT
        !.scores = SetKey(@, c, [p \in Periods |-> GetKey(@, c, ZeroCounters)[p] + inc[p]]),
        !.global = [p \in Periods |-> @[p] + inc[p]],
        !.teams  = IF mode = StrV("team") /\ team # None
                   THEN SetKey(@, team, GetKey(@, team, 0) + 1)
                   ELSE @]

\* the document an upsert starts from
NewScoreDoc(u) == [user_id |-> u, scores |-> <<>>, global |-> ZeroCounters, teams |-> <<>>]

\* scores_coll.update_one({"user_id": u}, update, upsert=True)   (B)
scores_update_one(coll, u, c, inc, mode, team) ==
    IF DocsOf(coll, u) # {}
    THEN [coll EXCEPT ![First(DocsOf(coll, u))] = ApplyInc(@, c, inc, mode, team)]
    ELSE Append(coll, ApplyInc(NewScoreDoc(u), c, inc, mode, team))

\* an update of the wins stat with "$set" in place of "$inc"
stats_set_wins(stats, u) ==
    [stats EXCEPT ![u] = SetKey(@, "wins", 1)]

\* stats_coll.update_one({"user_id": u}, {"$inc": {"wins": 1}}, upsert=True)   (B)
stats_inc_wins(stats, u) ==
    [stats EXCEPT ![u] = SetKey(@, "wins", GetKey(@, "wins", 0) + 1)]

\* INSERT OR IGNORE INTO scores (user_id, chat_id)   (W)
scores_insert_or_ignore(coll, u, c) ==
    IF RowsOf(coll, u, c) # {} THEN coll
    ELSE Append(coll, [user_id |-> u, chat_id |-> c,
                       today |-> 0, week |-> 0, month |-> 0, all_time |-> 0])

\* an UPDATE scores without "AND chat_id = ?"
scores_update_rows_of_user(coll, u, c, t) ==
    [i \in 1..Len(coll) |->
        IF coll[i].user_id = u
        THEN [coll[i] EXCEPT !.all_time = @ + 1, !.today = @ + 1, !.week = @ + 1, !.month = @ + 1]
        ELSE coll[i]]

\* UPDATE scores SET all_time = all_time + 1, today = today + CASE ... WHERE user_id, chat_id   (W)
\* every 'now' of one statement is the same instant
scores_update_row(coll, u, c, t) ==
    [i \in 1..Len(coll) |->
        IF coll[i].user_id = u /\ coll[i].chat_id = c
        THEN [coll[i] EXCEPT
                !.all_time = @ + 1,
                !.today = @ + (IF DayOf(t) = DayOf(t) THEN 1 ELSE 0),
                !.week  = @ + (IF WeekOf(t) = WeekOf(t) THEN 1 ELSE 0),
                !.month = @ + (IF MonthOf(t) = MonthOf(t) THEN 1 ELSE 0)]
        ELSE coll[i]]

\* UPDATE stats SET wins = wins + 1 WHERE user_id = u   (W)
stats_update_wins(stats, u) ==
    [stats EXCEPT ![u] = IF @ = <<>> THEN @ ELSE [@ EXCEPT !["wins"] = @ + 1]]

\* update_score of src/B.py: its effect on the two collections
update_score_B_scores(coll, u, c, mode, team, t) ==
    scores_update_one(coll, u, c, IncOf(t, t), mode, team)

\* update_score of src/wordseek.py: its effect on the scores table
update_score_W_scores(coll, u, c, t) ==
    scores_update_row(scores_insert_or_ignore(coll, u, c), u, c, t)

\* the ledger as the claims read it: player u's counter of a period in chat c ...
ChatCount(coll, v, u, c, p) ==
    IF v = "B"
    THEN IF DocsOf(coll, u) = {} THEN 0
         ELSE GetKey(coll[First(DocsOf(coll, u))].scores, c, ZeroCounters)[p]
    ELSE IF RowsOf(coll, u, c) = {} THEN 0
         ELSE coll[First(RowsOf(coll, u, c))][p]

\* ... and across all chats: the "global" counters of B; W keeps none and
\* sums the rows (myscore: SELECT SUM(period) FROM scores WHERE user_id = ?)
GlobalCount(coll, v, u, p) ==
    IF v = "B"
    THEN IF DocsOf(coll, u) = {} THEN 0
         ELSE coll[First(DocsOf(coll, u))].global[p]
    ELSE SumSeq([i \in 1..Len(coll) |-> IF coll[i].user_id = u THEN coll[i][p] ELSE 0])

-----------------------------------------------------------------------------
(* get_leaderboard *)

\* the orders in which a store may return entries of equal score: "$sort" and
\* ORDER BY name one key and promise nothing about entries that are equal in it
TieOrders == {"natural", "reverse"}

RECURSIVE sort_desc(_, _, _)
\* the positions S, by descending score
sort_desc(S, score, tie) ==
    IF S = {} THEN <<>>
    ELSE LET top == CHOOSE i \in S : \A j \in S :
                       \/ score[i] > score[j]
                       \/ score[i] = score[j]
                          /\ (IF tie = "natural" THEN i <= j ELSE i >= j)
         IN <<top>> \o sort_desc(S \ {top}, score, tie)

\* "$skip" and "$limit" / LIMIT ? OFFSET ?
page_of(sorted, page) ==
    SubSeq(sorted, (page - 1) * per_page + 1, Min(Len(sorted), page * per_page))

\* the field of a score document at "<scope>.<period>": <<value>>, or <<>> when the
\* document has no such field (its fields are "global" and "scores", and "scores"
\* is keyed by chat id)
path(doc, scope, period) ==
    IF scope = "global" THEN <<doc.global[period]>>
    ELSE IF scope = "scores" /\ period \in DOMAIN doc.scores THEN <<doc.scores[period]>>
    ELSE <<>>

\* {"<scope>.<period>": {"$gt": 0}}
gt_0(doc, scope, period) ==
    path(doc, scope, period) # <<>> /\ path(doc, scope, period)[1] > 0

\* total = scores_coll.count_documents({"<scope>.<period>": {"$gt": 0}})
total_B(coll, scope, period) ==
    Cardinality({i \in 1..Len(coll) : gt_0(coll[i], scope, period)})

\* get_leaderboard of src/B.py; `unknown` are the users whose name get_users does
\* not return.  rows: the <<user_id, score>> listed; prev, next: the buttons.
get_leaderboard_B(coll, scope, chat_id, period, page, tie, unknown) ==
    LET matched == {i \in 1..Len(coll) :
                       /\ gt_0(coll[i], scope, period)
                       /\ scope = "scores" =>
                              /\ "chat_id" \in DOMAIN coll[i].scores
                              /\ coll[i].scores["chat_id"] = chat_id}
        score == [i \in matched |-> path(coll[i], scope, period)[1]]
        users == page_of(sort_desc(matched, score, tie), page)
        listed == SelectSeq(users, LAMBDA i : coll[i].user_id \notin unknown)
        total == total_B(coll, scope, period)
    IN [rows |-> [k \in 1..Len(listed) |-> <<coll[listed[k]].user_id, score[listed[k]]>>],
        first_rank |-> 1 + (page - 1) * per_page,
        prev |-> page > 1,
        next |-> total > page * per_page]

\* get_leaderboard of src/wordseek.py
get_leaderboard_W(coll, scope, chat_id, period, page, tie, unknown) ==
    LET matched == {i \in 1..Len(coll) :
                       /\ coll[i][period] > 0
                       /\ scope = "group" => coll[i].chat_id = chat_id}
        score == [i \in matched |-> coll[i][period]]
        rows == page_of(sort_desc(matched, score, tie), page)
        listed == SelectSeq(rows, LAMBDA i : coll[i].user_id \notin unknown)
        total == Len(listed)
    IN [rows |-> [k \in 1..Len(listed) |-> <<coll[listed[k]].user_id, score[listed[k]]>>],
        first_rank |-> 1 + (page - 1) * per_page,
        prev |-> page > 1,
        next |-> total = per_page]

\* the leaderboard of a scope ("group" or "global") as the running program builds it;
\* src/B.py names the group scope "scores"
get_leaderboard(scope, chat_id, period, page, tie, unknown) ==
    IF variant = "B"
    THEN get_leaderboard_B(scores_coll, IF scope = "group" THEN "scores" ELSE "global",
                           chat_id, period, page, tie, unknown)
    ELSE get_leaderboard_W(scores_coll, scope, chat_id, period, page, tie, unknown)

-----------------------------------------------------------------------------
(* The state a handler reads and leaves behind *)

aux == <<hint_in, hint_out, lb_out, rec_pc>>

\* the stores and the rate limiter as a handler finds them, as one record;
\* "reply" is the message the handler sends (none yet)
Cur ==
    [games |-> games_coll, scores |-> scores_coll, stats |-> stats_coll,
     bot |-> bot_stats, ulg |-> user_last_guess, tasks |-> tasks,
     reply |-> NoReply, wins |-> win_log]

\* the handler has run and left e behind
Becomes(e) ==
    /\ games_coll' = e.games
    /\ scores_coll' = e.scores
    /\ stats_coll' = e.stats
    /\ bot_stats' = e.bot
    /\ user_last_guess' = e.ulg
    /\ tasks' = e.tasks
    /\ win_log' = e.wins

\* int(value): the decimal texts the model sends, and whether int() accepts a text
IsIntText(value) == value \in {"0", "1", "3"}
int(value) == CASE value = "0" -> 0 [] value = "1" -> 1 [] value = "3" -> 3 [] OTHER -> 0

\* the "/settings key value" commands admins send
SettingArgs ==
    { <<"max_guesses", "1">>, <<"max_guesses", "0">>, <<"timeout", "x">>,
      <<"length", "3">>, <<"word_length", "3">>, <<"theme", "neon">>,
      <<"mode", "team">> }

\* the "/new [mode]" arguments
ModeArgs == {"standard", "team", "solo"}

-----------------------------------------------------------------------------
(* update_stats and check_achievements *)

\* update_stats(user_id, 1) of src/B.py
update_stats_B(e, u, t) ==
    [e EXCEPT
        !.stats = [@ EXCEPT ![u] =
                      SetKey(SetKey(@, "games_played", GetKey(@, "games_played", 0) + 1),
                             "total_guesses", GetKey(@, "total_guesses", 0) + 1)],
        !.bot = [@ EXCEPT !.guesses_made = @ + 1, !.games_started = @ + 0]]

\* update_stats(user_id, 1) of src/wordseek.py
update_stats_W(e, u, t) ==
    LET row == IF e.stats[u] = <<>>
               THEN [games_played |-> 0, wins |-> 0, total_guesses |-> 0]
               ELSE e.stats[u]
    IN [e EXCEPT
          !.stats = [@ EXCEPT ![u] = [row EXCEPT !.games_played = @ + 1,
                                                 !.total_guesses = @ + 1]],
          !.bot = [@ EXCEPT !.guesses_made = @ + 1]]

\* ACHIEVEMENTS, in the order of the dict, and the condition of each
ACHIEVEMENTS == <<"first_win", "ten_wins", "hundred_guesses">>

condition(ach_id, user_stats) ==
    CASE ach_id = "first_win" -> GetKey(user_stats, "wins", 0) >= 1
      [] ach_id = "ten_wins" -> GetKey(user_stats, "wins", 0) >= TenWins
      [] ach_id = "hundred_guesses" -> GetKey(user_stats, "total_guesses", 0) >= HundredGuesses

\* check_achievements: the ids newly unlocked, in order
newly_unlocked(user_stats) ==
    SelectSeq(ACHIEVEMENTS,
              LAMBDA a : condition(a, user_stats)
                         /\ a \notin GetKey(user_stats, "achievements", {}))

\* a check_achievements that does not record what it unlocks
check_achievements_unrecorded(stats, u) == stats

\* check_achievements: the stats collection after the "$addToSet" updates
check_achievements(stats, u) ==
    LET unlocked == newly_unlocked(stats[u])
    IN IF unlocked = <<>> THEN stats
       ELSE [stats EXCEPT ![u] =
               SetKey(@, "achievements",
                      GetKey(@, "achievements", {}) \cup {unlocked[i] : i \in 1..Len(unlocked)})]

-----------------------------------------------------------------------------
(* handle_guess *)

\* a handle_guess that ends the game one guess late
exhausted_late(guesses, settings) == Len(guesses) > settings["max_guesses"].n

\* len(game["guesses"]) >= settings["max_guesses"]
exhausted(guesses, settings) == Len(guesses) >= settings["max_guesses"].n

\* the rate limiter of src/B.py: the Redis key "guess:<user>" exists (setex lets it
\* expire RATE_LIMIT seconds after it was set; Tick removes the expired keys)
limited_B(u) == user_last_guess[u] # NoTime

\* a rate limiter whose window is one second too long
limited_W_late(u) == user_last_guess[u] # NoTime /\ now - user_last_guess[u] <= RATE_LIMIT

\* the rate limiter of src/wordseek.py: the in-process map
limited_W(u) == user_last_guess[u] # NoTime /\ now - user_last_guess[u] < RATE_LIMIT

\* the part of handle_guess (B) after the guess has passed every check:
\* record it, then resolve the game on a win or on the last guess
accept_guess_B(e0, c, u, guess, game) ==
    LET settings == game.settings
        is_team == settings["mode"] = StrV("team")
        team == IF is_team
                THEN (IF Len(game.guesses) % 2 = 0 THEN "team1" ELSE "team2")
                ELSE None
        teams2 == IF is_team THEN [game.teams EXCEPT ![team] = @ \cup {u}] ELSE game.teams
        guesses2 == Append(game.guesses, <<u, guess>>)
        game2 == [game EXCEPT !.guesses = guesses2, !.players = @ \cup {u}, !.teams = teams2]
        e1 == update_stats_B([e0 EXCEPT !.games = update_one_set(@, c, game2)], u, now)
        hint == get_hint(guess, game.word)
    IN IF guess = game.word
       THEN LET stats3 == stats_inc_wins(e1.stats, u)
            IN [e1 EXCEPT
                  !.scores = update_score_B_scores(@, u, c, settings["mode"], team, now),
                  !.stats = check_achievements(stats3, u),
                  !.wins = Append(@, [user |-> u, chat |-> c, day |-> DayOf(now)]),
                  !.games = delete_one(@, c),
                  !.reply = [Reply("win", c, u) EXCEPT
                                !.word = game.word,
                                !.unlocked = newly_unlocked(stats3[u])]]
       ELSE IF exhausted(guesses2, settings)
       THEN [e1 EXCEPT
               !.games = delete_one(@, c),
               !.reply = [Reply("game_over", c, 0) EXCEPT !.word = game.word]]
       ELSE [e1 EXCEPT
               !.reply = [Reply("guesses_left", c, 0) EXCEPT
                             !.word = guess, !.hint = hint,
                             !.left = settings["max_guesses"].n - Len(guesses2)]]

\* the store writes of handle_guess (B) for a winning guess, in the order the code
\* makes them: 1 the guesses of the game, 2 the player's stats and 3 the bot's
\* stats (update_stats), 4 the scores and 5 the wins stat (update_score),
\* 6 the achievements (check_achievements), 7 the removal of the game
Writes == 1..7

\* handle_guess (B) for a winning guess that has passed every check, when the
\* store raises at write k: the writes before k are made, the exception ends the
\* handler, and no reply is sent
win_interrupted(c, u, guess, k) ==
    LET game == Game(c)
        settings == game.settings
        is_team == settings["mode"] = StrV("team")
        team == IF is_team
                THEN (IF Len(game.guesses) % 2 = 0 THEN "team1" ELSE "team2")
                ELSE None
        teams2 == IF is_team THEN [game.teams EXCEPT ![team] = @ \cup {u}] ELSE game.teams
        game2 == [game EXCEPT !.guesses = Append(@, <<u, guess>>),
                              !.players = @ \cup {u}, !.teams = teams2]
        e0 == [Cur EXCEPT !.ulg = [@ EXCEPT ![u] = now]]
        e1 == [e0 EXCEPT !.games = update_one_set(@, c, game2)]
        e3 == update_stats_B(e1, u, now)
        e2 == [e1 EXCEPT !.stats = e3.stats]
        e4 == [e3 EXCEPT !.scores = update_score_B_scores(@, u, c, settings["mode"], team, now)]
        e5 == [e4 EXCEPT !.stats = stats_inc_wins(@, u)]
        e6 == [e5 EXCEPT !.stats = check_achievements(@, u)]
    IN CASE k = 1 -> e0
         [] k = 2 -> e1
         [] k = 3 -> e2
         [] k = 4 -> e3
         [] k = 5 -> e4
         [] k = 6 -> e5
         [] k = 7 -> e6

\* handle_guess of src/B.py: what it leaves behind
handle_guess_B_effect(c, u, text) ==
    LET guess == strip(lower(text))
        e0 == [Cur EXCEPT !.ulg = [@ EXCEPT ![u] = now]]
    IN IF limited_B(u) THEN [Cur EXCEPT !.reply = Reply("slow_down", c, 0)]
       ELSE IF ~HasGame(c) THEN e0
       ELSE LET game == Game(c)
                settings == game.settings
            IN IF u \in GetKey(game, "banned", {})
               THEN [e0 EXCEPT !.reply = Reply("you_are_banned", c, 0)]
               ELSE IF IntV(Len(guess)) # settings["word_length"] \/ ~isalpha(guess)
               THEN [e0 EXCEPT !.reply = Reply("invalid_guess", c, 0)]
               ELSE IF guess \notin WORDS
               THEN [e0 EXCEPT !.reply = Reply("not_valid_word", c, 0)]
               ELSE IF \/ {"guesses", "players", "teams"} \ (DOMAIN game) # {}
                       \/ /\ settings["mode"] = StrV("team")
                          /\ (IF Len(game.guesses) % 2 = 0 THEN "team1" ELSE "team2")
                                 \notin DOMAIN game.teams
               THEN e0     \* KeyError: the handler ends here, nothing is written
               ELSE accept_guess_B(e0, c, u, guess, game)

handle_guess_B(c, u, text) ==
    /\ variant = "B"
    /\ Becomes(handle_guess_B_effect(c, u, text))
    /\ UNCHANGED <<variant, now, commands, aux>>

\* a handle_guess that counts the guess before it has looked at the game
handle_guess_W_counted(c, u, text) ==
    IF limited_W(u) THEN [Cur EXCEPT !.reply = Reply("slow_down", c, 0)]
    ELSE update_stats_W([Cur EXCEPT !.ulg = [@ EXCEPT ![u] = now]], u, now)

\* handle_guess of src/wordseek.py: what it leaves behind
handle_guess_W_effect(c, u, text) ==
    LET guess == strip(lower(text))
        e0 == [Cur EXCEPT !.ulg = [@ EXCEPT ![u] = now]]
    IN IF limited_W(u) THEN [Cur EXCEPT !.reply = Reply("slow_down", c, 0)]
       ELSE IF ~HasGame(c) THEN e0
       ELSE LET row == Game(c)
                word == row.word
                settings == eval(row.settings)
                guesses == IF row.guesses # EmptyText THEN eval(row.guesses) ELSE <<>>
                players == IF row.players # EmptyText THEN eval(row.players) ELSE {}
            IN IF IntV(Len(guess)) # settings["word_length"] \/ ~isalpha(guess)
               THEN [e0 EXCEPT !.reply = Reply("invalid_guess", c, 0)]
               ELSE IF guess \notin WORDS
               THEN [e0 EXCEPT !.reply = Reply("not_valid_word", c, 0)]
               ELSE
               LET guesses2 == Append(guesses, <<u, guess>>)
                   row2 == [row EXCEPT !.guesses = str(guesses2),
                                       !.players = str(players \cup {u})]
                   e1 == update_stats_W([e0 EXCEPT !.games = update_one_set(@, c, row2)],
                                        u, now)
                   hint == get_hint(guess, word)
               IN IF guess = word
                  THEN [e1 EXCEPT
                          !.scores = update_score_W_scores(@, u, c, now),
                          !.stats = stats_update_wins(@, u),
                          !.wins = Append(@, [user |-> u, chat |-> c, day |-> DayOf(now)]),
                          !.games = delete_one(@, c),
                          !.reply = [Reply("win", c, u) EXCEPT !.word = word]]
                  ELSE IF exhausted(guesses2, settings)
                  THEN [e1 EXCEPT
                          !.games = delete_one(@, c),
                          !.reply = [Reply("game_over", c, 0) EXCEPT !.word = word]]
                  ELSE [e1 EXCEPT
                          !.reply = [Reply("guesses_left", c, 0) EXCEPT
                                        !.word = guess, !.hint = hint,
                                        !.left = settings["max_guesses"].n - Len(guesses2)]]

handle_guess_W(c, u, text) ==
    /\ variant = "W"
    /\ Becomes(handle_guess_W_effect(c, u, text))
    /\ UNCHANGED <<variant, now, commands, aux>>

-----------------------------------------------------------------------------
(* new_game and the deferred tasks *)

\* the document new_game (B) inserts (its start_time, which nothing reads, is not kept)
new_game_doc_B(c, mode, word) ==
    [chat_id |-> c, word |-> word, guesses |-> <<>>, players |-> {},
     teams |-> IF mode = "team" THEN [team1 |-> {}, team2 |-> {}] ELSE <<>>,
     settings |-> [DEFAULT_SETTINGS_B EXCEPT !["mode"] = StrV(mode)],
     banned |-> {}]

\* the row new_game (W) inserts
new_game_row_W(c, word) ==
    [chat_id |-> c, word |-> word, guesses |-> EmptyText, players |-> EmptyText,
     settings |-> str(DEFAULT_SETTINGS_W)]

\* asyncio.create_task(game_tasks()) / (timeout_game()): the coroutine new_game
\* starts, asleep until `wake`.  The reply new_game awaits before it is taken to be
\* sent within the second, so the coroutine starts at the time of the insert.
\* Wake-up times are kept doubled, so that timeout / 2 stays a whole number.
new_task(c) ==
    IF variant = "B"
    THEN [chat |-> c, pc |-> "sleep1", wake |-> 2 * now + DEFAULT_SETTINGS_B["timeout"].n]
    ELSE [chat |-> c, pc |-> "sleep", wake |-> 2 * now + 2 * DEFAULT_SETTINGS_W["timeout"].n]

\* a new_game that does not look for a game in progress
new_game_unguarded(c, mode, word) ==
    IF mode \notin {"standard", "team", "competitive"}
    THEN [Cur EXCEPT !.reply = Reply("invalid_mode", c, 0)]
    ELSE [Cur EXCEPT
            !.games = insert_one(@, c, new_game_doc_B(c, mode, word)),
            !.bot = [@ EXCEPT !.games_started = @ + 1],
            !.tasks = @ \cup {new_task(c)},
            !.reply = Reply("new_game", c, 0)]

\* new_game of src/B.py; `word` is what random.choice draws
\* from the list fetch_words returns for this game
new_game_B_effect(c, mode, word) ==
    IF mode \notin {"standard", "team", "competitive"}
    THEN [Cur EXCEPT !.reply = Reply("invalid_mode", c, 0)]
    ELSE IF HasGame(c)
    THEN [Cur EXCEPT !.reply = Reply("game_in_progress", c, 0)]
    ELSE [Cur EXCEPT
            !.games = insert_one(@, c, new_game_doc_B(c, mode, word)),
            !.bot = [@ EXCEPT !.games_started = @ + 1],
            !.tasks = @ \cup {new_task(c)},
            !.reply = Reply("new_game", c, 0)]

new_game_B(c, mode, word) ==
    /\ variant = "B"
    /\ bot_stats.games_started < MaxGames
    /\ Becomes(new_game_B_effect(c, mode, word))
    /\ UNCHANGED <<variant, now, commands, aux>>

\* new_game of src/wordseek.py
new_game_W_effect(c, word) ==
    IF HasGame(c)
    THEN [Cur EXCEPT !.reply = Reply("game_in_progress", c, 0)]
    ELSE [Cur EXCEPT
            !.games = insert_one(@, c, new_game_row_W(c, word)),
            !.bot = [@ EXCEPT !.games_started = @ + 1],
            !.tasks = @ \cup {new_task(c)},
            !.reply = Reply("new_game", c, 0)]

new_game_W(c, word) ==
    /\ variant = "W"
    /\ bot_stats.games_started < MaxGames
    /\ Becomes(new_game_W_effect(c, word))
    /\ UNCHANGED <<variant, now, commands, aux>>

\* game_tasks (B), first half: the reminder, then the second sleep
game_tasks_reminder_effect(task) ==
    IF ~HasGame(task.chat)
    THEN [Cur EXCEPT !.tasks = (@ \ {task}) \cup
            {[task EXCEPT !.pc = "sleep2",
                          !.wake = 2 * now + DEFAULT_SETTINGS_B["timeout"].n]}]
    ELSE IF "guesses" \notin DOMAIN Game(task.chat)
    THEN [Cur EXCEPT !.tasks = @ \ {task}]     \* KeyError: the coroutine ends
    ELSE [Cur EXCEPT
            !.tasks = (@ \ {task}) \cup
               {[task EXCEPT !.pc = "sleep2",
                             !.wake = 2 * now + DEFAULT_SETTINGS_B["timeout"].n]},
            !.reply = [Reply("reminder", task.chat, 0) EXCEPT
                          !.left = DEFAULT_SETTINGS_B["max_guesses"].n
                                   - Len(Game(task.chat).guesses)]]

game_tasks_reminder(task) ==
    /\ variant = "B"
    /\ task \in tasks
    /\ task.pc = "sleep1"
    /\ 2 * now >= task.wake
    /\ Becomes(game_tasks_reminder_effect(task))
    /\ UNCHANGED <<variant, now, commands, aux>>

\* a game_tasks that announces the end of the game and leaves the game in place
game_tasks_timeout_idle(task) ==
    IF ~HasGame(task.chat)
    THEN [Cur EXCEPT !.tasks = @ \ {task}]
    ELSE [Cur EXCEPT
            !.tasks = @ \ {task},
            !.reply = [Reply("game_ended", task.chat, 0) EXCEPT
                          !.word = GetKey(Game(task.chat), "word", <<>>)]]

\* game_tasks (B), second half: the timeout
game_tasks_timeout_effect(task) ==
    IF ~HasGame(task.chat)
    THEN [Cur EXCEPT !.tasks = @ \ {task}]
    ELSE [Cur EXCEPT
            !.tasks = @ \ {task},
            !.games = delete_one(@, task.chat),
            !.reply = IF "word" \in DOMAIN Game(task.chat)
                      THEN [Reply("game_ended", task.chat, 0) EXCEPT
                               !.word = Game(task.chat).word]
                      ELSE @]       \* KeyError after the delete

game_tasks_timeout(task) ==
    /\ variant = "B"
    /\ task \in tasks
    /\ task.pc = "sleep2"
    /\ 2 * now >= task.wake
    /\ Becomes(game_tasks_timeout_effect(task))
    /\ UNCHANGED <<variant, now, commands, aux>>

\* a timeout_game that wakes up and leaves the game where it is
timeout_game_idle(task) == [Cur EXCEPT !.tasks = @ \ {task}]

\* timeout_game (W)
timeout_game_effect(task) ==
    IF ~HasGame(task.chat)
    THEN [Cur EXCEPT !.tasks = @ \ {task}]
    ELSE [Cur EXCEPT
            !.tasks = @ \ {task},
            !.games = delete_one(@, task.chat),
            !.reply = [Reply("game_ended", task.chat, 0) EXCEPT
                          !.word = Game(task.chat).word]]

timeout_game(task) ==
    /\ variant = "W"
    /\ task \in tasks
    /\ task.pc = "sleep"
    /\ 2 * now >= task.wake
    /\ Becomes(timeout_game_effect(task))
    /\ UNCHANGED <<variant, now, commands, aux>>

\* a second passes, once the event loop has run the coroutines whose sleep is over;
\* the Redis keys of the rate limiter (B) that are due expire
Tick ==
    /\ now < MaxTime
    /\ \A task \in tasks : 2 * now < task.wake
    /\ now' = now + 1
    /\ user_last_guess' =
         [u \in Players |->
            IF variant = "B" /\ user_last_guess[u] # NoTime
               /\ now + 1 - user_last_guess[u] >= RATE_LIMIT
            THEN NoTime ELSE user_last_guess[u]]
    /\ UNCHANGED <<variant, games_coll, scores_coll, stats_coll, bot_stats, tasks,
                   win_log, commands, aux>>

-----------------------------------------------------------------------------
(* The admin commands: /end, /settings, /ban, /kick *)

\* 1 when the command was carried out and 0 when it was refused
carried_out(e) == IF e.reply.kind \in {"settings_updated", "banned", "kicked"} THEN 1 ELSE 0

\* an end_game that announces the word and leaves the game in place
end_game_announce(c, is_admin) ==
    IF ~is_admin THEN [Cur EXCEPT !.reply = Reply("admin_only", c, 0)]
    ELSE IF ~HasGame(c) THEN [Cur EXCEPT !.reply = Reply("no_game", c, 0)]
    ELSE [Cur EXCEPT !.reply = [Reply("game_ended", c, 0) EXCEPT !.word = Game(c).word]]

\* end_game: the same in both programs
end_game_effect(c, is_admin) ==
    IF ~is_admin THEN [Cur EXCEPT !.reply = Reply("admin_only", c, 0)]
    ELSE IF ~HasGame(c) THEN [Cur EXCEPT !.reply = Reply("no_game", c, 0)]
    ELSE [Cur EXCEPT
            !.games = delete_one(@, c),
            !.reply = IF "word" \in DOMAIN Game(c)
                      THEN [Reply("game_ended", c, 0) EXCEPT !.word = Game(c).word]
                      ELSE @]       \* KeyError after the delete

end_game(c, is_admin) ==
    /\ Becomes(end_game_effect(c, is_admin))
    /\ UNCHANGED <<variant, now, commands, aux>>

\* the try block of update_settings (B) raises ValueError
invalid_setting_B(key, value) ==
    IF key \in {"max_guesses", "length", "timeout"}
    THEN ~IsIntText(value) \/ int(value) <= 0
    ELSE key = "theme" /\ value \notin {"default", "dark", "light"}

\* the value update_settings (B) stores
setting_value_B(key, value) ==
    IF key \in {"max_guesses", "length", "timeout"} THEN IntV(int(value)) ELSE StrV(value)

\* an update_settings that replaces the game document by one holding the settings
update_settings_B_replacing(c, is_admin, key, value) ==
    IF ~is_admin THEN [Cur EXCEPT !.reply = Reply("admin_only", c, 0)]
    ELSE IF invalid_setting_B(key, value)
    THEN [Cur EXCEPT !.reply = Reply("invalid_setting", c, 0)]
    ELSE LET settings == SetKey(IF HasGame(c) THEN Game(c).settings
                                ELSE DEFAULT_SETTINGS_B,
                                key, setting_value_B(key, value))
             doc == [chat_id |-> c, settings |-> settings]
         IN [Cur EXCEPT
               !.games = IF HasGame(c) THEN update_one_set(@, c, doc)
                         ELSE insert_one(@, c, doc),
               !.reply = Reply("settings_updated", c, 0)]

\* update_settings of src/B.py
update_settings_B_effect(c, is_admin, key, value) ==
    IF ~is_admin THEN [Cur EXCEPT !.reply = Reply("admin_only", c, 0)]
    ELSE IF invalid_setting_B(key, value)
    THEN [Cur EXCEPT !.reply = Reply("invalid_setting", c, 0)]
    ELSE LET settings == SetKey(IF HasGame(c) THEN Game(c).settings
                                ELSE DEFAULT_SETTINGS_B,
                                key, setting_value_B(key, value))
         IN [Cur EXCEPT
               !.games = IF HasGame(c)
                         THEN update_one_set(@, c, [Game(c) EXCEPT !.settings = settings])
                         ELSE \* upsert=True inserts a document
                              insert_one(@, c, [chat_id |-> c, settings |-> settings]),
               !.reply = Reply("settings_updated", c, 0)]

update_settings_B(c, is_admin, key, value) ==
    /\ variant = "B"
    /\ commands < MaxCommands
    /\ commands' = commands + carried_out(update_settings_B_effect(c, is_admin, key, value))
    /\ Becomes(update_settings_B_effect(c, is_admin, key, value))
    /\ UNCHANGED <<variant, now, aux>>

\* the try block of update_settings (W) raises ValueError
invalid_setting_W(key, value) ==
    \/ ~IsIntText(value)
    \/ key \notin {"max_guesses", "length", "timeout"}
    \/ int(value) <= 0

\* an update_settings that writes the row anew, with no guess in it
update_settings_W_clearing(c, is_admin, key, value) ==
    IF ~is_admin THEN [Cur EXCEPT !.reply = Reply("admin_only", c, 0)]
    ELSE IF invalid_setting_W(key, value)
    THEN [Cur EXCEPT !.reply = Reply("invalid_setting", c, 0)]
    ELSE LET settings == SetKey(IF HasGame(c) THEN eval(Game(c).settings)
                                ELSE DEFAULT_SETTINGS_W,
                                key, IntV(int(value)))
         IN [Cur EXCEPT
               !.games = IF HasGame(c)
                         THEN update_one_set(@, c, [Game(c) EXCEPT !.settings = str(settings),
                                                                   !.guesses = EmptyText])
                         ELSE @,
               !.reply = Reply("settings_updated", c, 0)]

\* update_settings of src/wordseek.py
update_settings_W_effect(c, is_admin, key, value) ==
    IF ~is_admin THEN [Cur EXCEPT !.reply = Reply("admin_only", c, 0)]
    ELSE IF invalid_setting_W(key, value)
    THEN [Cur EXCEPT !.reply = Reply("invalid_setting", c, 0)]
    ELSE LET settings == SetKey(IF HasGame(c) THEN eval(Game(c).settings)
                                ELSE DEFAULT_SETTINGS_W,
                                key, IntV(int(value)))
         IN [Cur EXCEPT
               \* UPDATE ... WHERE chat_id = ? changes nothing when there is no row
               !.games = IF HasGame(c)
                         THEN update_one_set(@, c, [Game(c) EXCEPT !.settings = str(settings)])
                         ELSE @,
               !.reply = Reply("settings_updated", c, 0)]

update_settings_W(c, is_admin, key, value) ==
    /\ variant = "W"
    /\ commands < MaxCommands
    /\ commands' = commands + carried_out(update_settings_W_effect(c, is_admin, key, value))
    /\ Becomes(update_settings_W_effect(c, is_admin, key, value))
    /\ UNCHANGED <<variant, now, aux>>

\* ban_user (B only)
ban_user_effect(c, is_admin, target_id) ==
    IF ~is_admin THEN [Cur EXCEPT !.reply = Reply("admin_only", c, 0)]
    ELSE [Cur EXCEPT
            !.games = IF HasGame(c)
                      THEN update_one_set(@, c,
                             SetKey(Game(c), "banned",
                                    GetKey(Game(c), "banned", {}) \cup {target_id}))
                      ELSE @,
            !.reply = Reply("banned", c, target_id)]

ban_user(c, is_admin, target_id) ==
    /\ variant = "B"
    /\ commands < MaxCommands
    /\ commands' = commands + carried_out(ban_user_effect(c, is_admin, target_id))
    /\ Becomes(ban_user_effect(c, is_admin, target_id))
    /\ UNCHANGED <<variant, now, aux>>

\* kick_user (B only)
kick_user_effect(c, is_admin, target_id) ==
    IF ~is_admin THEN [Cur EXCEPT !.reply = Reply("admin_only", c, 0)]
    ELSE IF ~HasGame(c) THEN [Cur EXCEPT !.reply = Reply("kicked", c, target_id)]
    ELSE IF "players" \notin DOMAIN Game(c)
    THEN \* KeyError, caught by the except clause
         [Cur EXCEPT !.reply = Reply("invalid_user", c, target_id)]
    ELSE [Cur EXCEPT
            !.games = update_one_set(@, c, [Game(c) EXCEPT !.players = @ \ {target_id}]),
            !.reply = Reply("kicked", c, target_id)]

kick_user(c, is_admin, target_id) ==
    /\ variant = "B"
    /\ commands < MaxCommands
    /\ commands' = commands + carried_out(kick_user_effect(c, is_admin, target_id))
    /\ Becomes(kick_user_effect(c, is_admin, target_id))
    /\ UNCHANGED <<variant, now, aux>>

-----------------------------------------------------------------------------
(* The bot: both programs start with empty stores *)

\* the other specifications' variables, at rest
AuxIdle ==
    /\ hint_in = <<>>
    /\ hint_out = <<>>
    /\ lb_out = <<>>
    /\ rec_pc = <<>>

\* no game, no timer, no armed gate, the clock at 0
NoGames ==
    /\ games_coll = [c \in Chats |-> <<>>]
    /\ bot_stats = [games_started |-> 0, guesses_made |-> 0]
    /\ user_last_guess = [u \in Players |-> NoTime]
    /\ tasks = {}
    /\ now = 0
    /\ commands = 0

\* nothing has been won yet
NoScores ==
    /\ scores_coll = <<>>
    /\ stats_coll = [u \in Players |-> <<>>]
    /\ win_log = <<>>

Init ==
    /\ variant \in Variants
    /\ NoGames
    /\ NoScores
    /\ AuxIdle

\* the game in the chats C: /new, the guesses, /end, the deferred coroutines, the clock
Game_step(C) ==
    \/ \E c \in C, mode \in ModeArgs, word \in NEW_WORDS : new_game_B(c, mode, word)
    \/ \E c \in C, word \in WORDS : new_game_W(c, word)
    \/ \E task \in tasks : game_tasks_reminder(task)
    \/ \E task \in tasks : game_tasks_timeout(task)
    \/ \E task \in tasks : timeout_game(task)
    \/ \E c \in C, u \in Players, text \in GuessTexts : handle_guess_B(c, u, text)
    \/ \E c \in C, u \in Players, text \in GuessTexts : handle_guess_W(c, u, text)
    \/ \E c \in C, is_admin \in BOOLEAN : end_game(c, is_admin)
    \/ Tick

\* the commands that change a game's record in the chats C: /settings, /ban, /kick
Admin_step(C) ==
    \/ \E c \in C, is_admin \in BOOLEAN, a \in SettingArgs :
          update_settings_B(c, is_admin, a[1], a[2])
    \/ \E c \in C, is_admin \in BOOLEAN, a \in SettingArgs :
          update_settings_W(c, is_admin, a[1], a[2])
    \/ \E c \in C, is_admin \in BOOLEAN, u \in Players : ban_user(c, is_admin, u)
    \/ \E c \in C, is_admin \in BOOLEAN, u \in Players : kick_user(c, is_admin, u)

\* Spec: the game played in every chat
Next == Game_step(Chats)

Spec == Init /\ [][Next]_vars

\* SpecAdmin: the game of one chat together with the admin commands
AdminChats == {"c1"}

NextAdmin == Game_step(AdminChats) \/ Admin_step(AdminChats)

SpecAdmin == Init /\ [][NextAdmin]_vars

-----------------------------------------------------------------------------
(* SpecHint: get_hint applied to every guess and target of up to MaxHintLen letters *)

MaxHintLen == 3

HintInputs == UNION { Universe(n) \X Universe(n) : n \in 1..MaxHintLen }

InitHint ==
    /\ variant \in Variants
    /\ NoGames
    /\ NoScores
    /\ hint_in \in HintInputs
    /\ hint_out = <<>>
    /\ lb_out = <<>>
    /\ rec_pc = <<>>

\* hint = get_hint(guess, word)
EvalHint ==
    /\ hint_out = <<>>
    /\ hint_out' = get_hint(hint_in[1], hint_in[2])
    /\ UNCHANGED <<variant, games_coll, scores_coll, stats_coll, bot_stats, user_last_guess,
                   tasks, now, win_log, commands, hint_in, lb_out, rec_pc>>

NextHint == EvalHint

SpecHint == InitHint /\ [][NextHint]_vars

-----------------------------------------------------------------------------
(* SpecLB: leaderboard queries over ledgers of up to MaxEntries players *)

MaxEntries == 12
MaxPage == 3

Scopes == {"group", "global"}
\* the periods asked for (the four counters of an entry are always equal)
QueryPeriods == {"today", "all_time"}

\* how many games each player of a ledger has won, and where
WinPatterns == {"ties", "mixed"}
Layouts == {"one_chat", "alternate", "both_chats"}

wins_of(u, pattern) == IF pattern = "ties" THEN 1 ELSE 1 + (u % 2)

chats_of(u, layout) ==
    CASE layout = "one_chat" -> <<"c1">>
      [] layout = "alternate" -> IF u % 2 = 1 THEN <<"c1">> ELSE <<"c2">>
      [] layout = "both_chats" -> <<"c1", "c2">>

\* the score document update_score (B) leaves for a player who won n games in each
\* of the chats cs, and the rows update_score (W) leaves
score_doc(u, cs, n) ==
    [user_id |-> u,
     scores |-> [c \in {cs[k] : k \in 1..Len(cs)} |-> [p \in Periods |-> n]],
     global |-> [p \in Periods |-> n * Len(cs)],
     teams |-> <<>>]

score_rows(u, cs, n) ==
    [k \in 1..Len(cs) |->
        [user_id |-> u, chat_id |-> cs[k], today |-> n, week |-> n, month |-> n, all_time |-> n]]

RECURSIVE ledger_of(_, _, _, _)
\* the scores after the players 1..k have won their games, player 1 first
ledger_of(v, k, pattern, layout) ==
    IF k = 0 THEN <<>>
    ELSE ledger_of(v, k - 1, pattern, layout) \o
         (IF v = "B" THEN <<score_doc(k, chats_of(k, layout), wins_of(k, pattern))>>
          ELSE score_rows(k, chats_of(k, layout), wins_of(k, pattern)))

InitLB ==
    /\ variant \in Variants
    /\ NoGames
    /\ stats_coll = [u \in Players |-> <<>>]
    /\ win_log = <<>>
    /\ \E k \in 0..MaxEntries, pattern \in WinPatterns, layout \in Layouts :
          scores_coll = ledger_of(variant, k, pattern, layout)
    /\ hint_in = <<>>
    /\ hint_out = <<>>
    /\ lb_out = <<>>
    /\ rec_pc = <<>>

\* /leaderboard and the Previous / Next buttons: one call of get_leaderboard,
\* with every player's name known to the platform
Query(scope, chat_id, period, page, tie) ==
    /\ lb_out' = <<[scope |-> scope, chat_id |-> chat_id, period |-> period, page |-> page,
                    result |-> get_leaderboard(scope, chat_id, period, page, tie, {})]>>
    /\ UNCHANGED <<variant, games_coll, scores_coll, stats_coll, bot_stats, user_last_guess,
                   tasks, now, win_log, commands, hint_in, hint_out, rec_pc>>

NextLB ==
    \E scope \in Scopes, chat_id \in Chats, period \in QueryPeriods, page \in 1..MaxPage,
       tie \in TieOrders :
        Query(scope, chat_id, period, page, tie)

SpecLB == InitLB /\ [][NextLB]_vars

-----------------------------------------------------------------------------
(* SpecLedger: the winners of concurrent games record their wins in one chat,  *)
(* store call by store call                                                    *)

MaxRecorders == 3

Recorders == 1..MaxRecorders
LedgerChat == "c1"

\* what was won before: nothing, or one game by one player in one chat
PriorWins ==
    {<<>>} \cup {<<[user |-> u, chat |-> c, day |-> 0]>> : u \in Recorders, c \in Chats}

\* the stats record of a player after g accepted guesses, w of them winning
stats_row(v, g, w) ==
    IF g = 0 THEN <<>>
    ELSE IF v = "W" THEN [games_played |-> g, wins |-> w, total_guesses |-> g]
    ELSE IF w = 0 THEN [games_played |-> g, total_guesses |-> g]
    ELSE [games_played |-> g, total_guesses |-> g, wins |-> w, achievements |-> {"first_win"}]

\* the winning guess of every recorder has been appended and counted by update_stats;
\* update_score is about to be called for each of them
InitLedger ==
    /\ variant \in Variants
    /\ NoGames
    /\ hint_in = <<>>
    /\ hint_out = <<>>
    /\ lb_out = <<>>
    /\ \E prior \in PriorWins, R \in (SUBSET Recorders) \ {{}} :
          LET won(u) == IF prior # <<>> /\ prior[1].user = u THEN 1 ELSE 0
              guessing(u) == IF u \in R THEN 1 ELSE 0
          IN /\ win_log = prior
             /\ scores_coll =
                   IF prior = <<>> THEN <<>>
                   ELSE IF variant = "B"
                   THEN update_score_B_scores(<<>>, prior[1].user, prior[1].chat,
                                              StrV("standard"), None, 0)
                   ELSE update_score_W_scores(<<>>, prior[1].user, prior[1].chat, 0)
             /\ stats_coll = [u \in Recorders |-> stats_row(variant, won(u) + guessing(u), won(u))]
             /\ rec_pc = [u \in Recorders |-> IF u \in R THEN "start" ELSE "idle"]

\* update_score (B), first call: scores_coll.update_one
record_scores_B(u) ==
    /\ variant = "B"
    /\ rec_pc[u] = "start"
    /\ scores_coll' = update_score_B_scores(scores_coll, u, LedgerChat, StrV("standard"), None, now)
    /\ rec_pc' = [rec_pc EXCEPT ![u] = "stats"]
    /\ UNCHANGED <<variant, games_coll, stats_coll, bot_stats, user_last_guess, tasks, now,
                   win_log, commands, hint_in, hint_out, lb_out>>

\* update_score (B), second call: stats_coll.update_one
record_stats_B(u) ==
    /\ variant = "B"
    /\ rec_pc[u] = "stats"
    /\ stats_coll' = stats_inc_wins(stats_coll, u)
    /\ rec_pc' = [rec_pc EXCEPT ![u] = "done"]
    /\ UNCHANGED <<variant, games_coll, scores_coll, bot_stats, user_last_guess, tasks, now,
                   win_log, commands, hint_in, hint_out, lb_out>>

\* update_score (W): the three statements of one transaction, then commit
record_W(u) ==
    /\ variant = "W"
    /\ rec_pc[u] = "start"
    /\ scores_coll' = update_score_W_scores(scores_coll, u, LedgerChat, now)
    /\ stats_coll' = stats_update_wins(stats_coll, u)
    /\ rec_pc' = [rec_pc EXCEPT ![u] = "done"]
    /\ UNCHANGED <<variant, games_coll, bot_stats, user_last_guess, tasks, now,
                   win_log, commands, hint_in, hint_out, lb_out>>

NextLedger ==
    \/ \E u \in Recorders : record_scores_B(u)
    \/ \E u \in Recorders : record_stats_B(u)
    \/ \E u \in Recorders : record_W(u)

SpecLedger == InitLedger /\ [][NextLedger]_vars

-----------------------------------------------------------------------------
(* What the properties below read from a state *)

\* a game record that new_game wrote: it has a target word
IsSession(c) == HasGame(c) /\ "word" \in DOMAIN Game(c)

\* the guess log, the target word and the guess limit of the game of chat c
Guesses(c) ==
    IF variant = "B" THEN GetKey(Game(c), "guesses", <<>>)
    ELSE IF Game(c).guesses # EmptyText THEN eval(Game(c).guesses) ELSE <<>>

Target(c) == Game(c).word

SettingsOf(c) == IF variant = "B" THEN Game(c).settings ELSE eval(Game(c).settings)

MaxGuessesOf(c) == SettingsOf(c)["max_guesses"]

\* what handling the text of player u in chat c would leave behind
guess_effect(c, u, text) ==
    IF variant = "B" THEN handle_guess_B_effect(c, u, text) ELSE handle_guess_W_effect(c, u, text)

\* what handling "/new" in chat c would leave behind, for every valid mode and draw
new_game_effects(c) ==
    IF variant = "B"
    THEN {new_game_B_effect(c, mode, word) : mode \in {"standard", "team"}, word \in NEW_WORDS}
    ELSE {new_game_W_effect(c, word) : word \in WORDS}

limited(u) == IF variant = "B" THEN limited_B(u) ELSE limited_W(u)

\* the wins stat of a player, and the wins the ledger holds in all
Wins(stats, u) == GetKey(stats[u], "wins", 0)

LedgerWins ==
    SumOver([u \in Players |-> GlobalCount(scores_coll, variant, u, "all_time")], Players)

-----------------------------------------------------------------------------
(* C1 *)

\* C1: there is never more than one game record for a chat.  A "/new" is handled
\* without interleaving from its look-up to its insert, so of two concurrent "/new"
\* for one chat the first handled finds no game and creates one, and the second,
\* like every "/new" for a chat that has a game, is answered "game in progress"
\* and leaves the game records as they were.
C1_SingleSession ==
    \A c \in Chats :
        /\ Len(games_coll[c]) <= 1
        /\ \A e \in new_game_effects(c) :
              IF HasGame(c)
              THEN e.games = games_coll /\ e.reply.kind = "game_in_progress"
              ELSE Len(e.games[c]) = 1 /\ e.reply.kind = "new_game"

\* a game in which a guess has been recorded, and a further "/new" is refused
C1_Witness ==
    \E c \in Chats :
        /\ HasGame(c)
        /\ Len(Guesses(c)) >= 1
        /\ bot_stats.games_started = 1
        /\ \A e \in new_game_effects(c) : e.reply.kind = "game_in_progress"

-----------------------------------------------------------------------------
(* C2 *)

\* what C2 asks of one step
C2_Step ==
    /\ scores_coll' # scores_coll => LedgerWins' = LedgerWins + 1
    /\ scores_coll' # scores_coll =>
          Cardinality({c \in Chats : IsSession(c) /\ ~HasGame(c)'}) = 1
    /\ bot_stats'.guesses_made \in {bot_stats.guesses_made, bot_stats.guesses_made + 1}
    /\ bot_stats'.guesses_made = bot_stats.guesses_made + 1 =>
          \E c \in Chats :
              /\ IsSession(c)
              /\ \/ ~HasGame(c)'
                 \/ /\ Len(Guesses(c)') = Len(Guesses(c)) + 1
                    /\ SubSeq(Guesses(c)', 1, Len(Guesses(c))) = Guesses(c)
    /\ \A c \in Chats :
          games_coll'[c] # games_coll[c] =>
              /\ ~HasGame(c) /\ HasGame(c)' => Guesses(c)' = <<>>
              /\ HasGame(c) /\ HasGame(c)' /\ Guesses(c)' # Guesses(c) =>
                    bot_stats'.guesses_made = bot_stats.guesses_made + 1

\* C2: guesses are handled one after the other, each on the state the one before
\* left.  A step that changes the scores records exactly one win and removes, in
\* that same step, the one game it was won in (so no game is won or
\* resolved twice); every recorded guess is appended to a game that exists when it
\* is handled, and a chat without a game gets a guess log only as a new, empty one.
C2_OneGuessAtATime == [][C2_Step]_vars

\* a game has been won and is gone, after at least two guesses were recorded
C2_Witness ==
    \E i \in 1..Len(win_log) :
        /\ ~HasGame(win_log[i].chat)
        /\ bot_stats.guesses_made >= 2
        /\ LedgerWins = 1

-----------------------------------------------------------------------------
(* C3 *)

\* C3: in every game, a guess of a player who is neither banned nor rate limited
\* wins (is answered "win", the game is removed and the win is recorded) if and
\* only if the text, lower-cased and trimmed, is the target word.
C3_WinIffTarget ==
    \A c \in Chats, u \in Players, text \in GuessTexts :
        (IsSession(c) /\ ~limited(u) /\ u \notin GetKey(Game(c), "banned", {})) =>
            LET e == guess_effect(c, u, text)
                won == /\ e.reply.kind = "win"
                       /\ e.games[c] = <<>>
                       /\ Len(e.wins) = Len(win_log) + 1
            IN won <=> (strip(lower(text)) = Target(c))

-----------------------------------------------------------------------------
(* C4 *)

\* what C4 asks of one step, for a game whose guess limit is the one it was created with
C4_Step ==
    \A c \in Chats :
        (IsSession(c) /\ MaxGuessesOf(c) = IntV(DefaultMaxGuesses)) =>
            LET n == Len(Guesses(c))
                accepted == /\ bot_stats'.guesses_made = bot_stats.guesses_made + 1
                            /\ games_coll'[c] # games_coll[c]
                            /\ scores_coll' = scores_coll
            IN /\ n < DefaultMaxGuesses
               /\ accepted =>
                     IF n + 1 = DefaultMaxGuesses
                     THEN ~HasGame(c)'
                     ELSE /\ HasGame(c)'
                          /\ Len(Guesses(c)') = n + 1
                          /\ MaxGuessesOf(c)' = MaxGuessesOf(c)

\* C4: a game whose guess limit M has not been changed holds fewer than M guesses
\* while it exists; a non-winning guess that is recorded as guess number n + 1 < M
\* leaves the game in place, and the one recorded as number M removes it.
C4_ExhaustedAtLimit == [][C4_Step]_vars

\* the only game started has ended with its last guess: none of them won
C4_Witness ==
    /\ bot_stats.games_started = 1
    /\ bot_stats.guesses_made = DefaultMaxGuesses
    /\ win_log = <<>>
    /\ commands = 0
    /\ \A c \in Chats : ~HasGame(c)

-----------------------------------------------------------------------------
(* C5 *)

\* the two-pass scoring: first the exact matches ...
exact_matches(guess, target) ==
    [i \in 1..Len(guess) |-> IF guess[i] = target[i] THEN Correct ELSE Absent]

\* ... which consume their target letters ...
unconsumed(guess, target) ==
    [i \in 1..Len(target) |-> IF guess[i] = target[i] THEN None ELSE target[i]]

RECURSIVE second_pass(_, _, _, _)
\* ... then, left to right, the letters still available in the pool
second_pass(guess, marks, pool, i) ==
    IF i > Len(guess) THEN marks
    ELSE IF marks[i] = Correct THEN second_pass(guess, marks, pool, i + 1)
    ELSE IF \E j \in 1..Len(pool) : pool[j] = guess[i]
    THEN second_pass(guess, [marks EXCEPT ![i] = Present],
                     [pool EXCEPT ![index(pool, guess[i])] = None], i + 1)
    ELSE second_pass(guess, marks, pool, i + 1)

two_pass_hint(guess, target) ==
    second_pass(guess, exact_matches(guess, target), unconsumed(guess, target), 1)

\* how often the letter occurs in the word, and how often the hint credits it
occurrences(word, letter) == Cardinality({i \in 1..Len(word) : word[i] = letter})

credited(guess, hint, letter) ==
    Cardinality({i \in 1..Len(guess) : guess[i] = letter /\ hint[i] \in {Correct, Present}})

\* C5: the hint returned for a guess and a target of equal length is the hint of the
\* two-pass scoring, and credits no letter more often than the target holds it.
C5_HintIsTwoPass ==
    hint_out # <<>> =>
        /\ hint_out = two_pass_hint(hint_in[1], hint_in[2])
        /\ \A letter \in Letters :
              credited(hint_in[1], hint_out, letter) <= occurrences(hint_in[2], letter)

-----------------------------------------------------------------------------
(* C6 *)

\* the recorders whose scores update has been applied
scored == {u \in DOMAIN rec_pc : rec_pc[u] \in {"stats", "done"}}

\* C6: however the store calls of concurrent winners interleave, no update is lost:
\* at every moment, and so when all N winners are done, the counters of the chat
\* summed over the players are, for each period, the wins the chat had before plus
\* the winners whose update has been applied, and so are the counters across chats.
C6_NoLostUpdate ==
    \A p \in Periods :
        /\ SumOver([u \in Recorders |-> ChatCount(scores_coll, variant, u, LedgerChat, p)],
                   Recorders)
              = Cardinality({i \in 1..Len(win_log) : win_log[i].chat = LedgerChat})
                + Cardinality(scored)
        /\ SumOver([u \in Recorders |-> GlobalCount(scores_coll, variant, u, p)], Recorders)
              = Len(win_log) + Cardinality(scored)

\* three winners have recorded their wins in a chat that had a win before
C6_Witness ==
    /\ DOMAIN rec_pc = Recorders
    /\ \A u \in Recorders : rec_pc[u] = "done"
    /\ win_log # <<>>
    /\ win_log[1].chat = LedgerChat

-----------------------------------------------------------------------------
(* C7 *)

\* the counters and the wins stat after a step are those before it, plus 1 for
\* player p in chat c and across chats
CountersPlusWin(p, c) ==
    /\ \A u \in Players, ch \in Chats, per \in Periods :
          ChatCount(scores_coll', variant, u, ch, per)
            = ChatCount(scores_coll, variant, u, ch, per) + (IF u = p /\ ch = c THEN 1 ELSE 0)
    /\ \A u \in Players, per \in Periods :
          GlobalCount(scores_coll', variant, u, per)
            = GlobalCount(scores_coll, variant, u, per) + (IF u = p THEN 1 ELSE 0)
    /\ \A u \in Players :
          Wins(stats_coll', u) = Wins(stats_coll, u) + (IF u = p THEN 1 ELSE 0)

\* C7: a step either leaves the scores and every wins stat as they were, or it
\* records one win: for one player p and one chat c, p's four counters of chat c,
\* p's four counters across chats and p's wins stat each grow by exactly 1, all in
\* that step, and no counter or wins stat of another player or of p in another
\* chat changes.
C7_WinIncrementsExactly ==
    [][ \/ /\ scores_coll' = scores_coll
           /\ \A u \in Players : Wins(stats_coll', u) = Wins(stats_coll, u)
           /\ win_log' = win_log
        \/ /\ Len(win_log') = Len(win_log) + 1
           /\ CountersPlusWin(win_log'[Len(win_log')].user, win_log'[Len(win_log')].chat)
      ]_vars

\* one player has won a game in each of the two chats
C7_Witness ==
    \E u \in Players :
        /\ ChatCount(scores_coll, variant, u, "c1", "all_time") = 1
        /\ ChatCount(scores_coll, variant, u, "c2", "all_time") = 1
        /\ GlobalCount(scores_coll, variant, u, "today") = 2
        /\ Wins(stats_coll, u) = 2

-----------------------------------------------------------------------------
(* C8 *)

\* the wins of player u recorded on the day it is now
wins_today(u) ==
    Cardinality({i \in 1..Len(win_log) : win_log[i].user = u /\ win_log[i].day = DayOf(now)})

\* C8: at every time, the today counter of a player (across chats) is the number of
\* wins of that player recorded on the current day; a win of an earlier day is not
\* in it.
C8_TodayIsToday ==
    \A u \in Players : GlobalCount(scores_coll, variant, u, "today") = wins_today(u)

-----------------------------------------------------------------------------
(* C9 and C10 *)

\* the players with an entry that matches a scope, chat and period: a positive
\* counter of the period in the chat (group) or across chats (global)
Matching(scope, c, p) ==
    {u \in 1..MaxEntries :
        IF scope = "group" THEN ChatCount(scores_coll, variant, u, c, p) > 0
        ELSE GlobalCount(scores_coll, variant, u, p) > 0}

\* the players listed on pages 1..n, in order
RECURSIVE listed_upto(_, _, _, _, _)
listed_upto(scope, c, p, n, tie) ==
    IF n = 0 THEN <<>>
    ELSE LET rows == get_leaderboard(scope, c, p, n, tie, {}).rows
         IN listed_upto(scope, c, p, n - 1, tie) \o [k \in 1..Len(rows) |-> rows[k][1]]

\* C9: page i of K matching entries lists min(5, max(0, K - 5(i - 1))) of them; the
\* pages together list every matching entry once and no entry twice; and what a
\* page lists does not depend on how the store orders entries of equal score, so
\* that a repeated query returns the same entries in the same order.
C9_PagesPartition ==
    /\ lb_out # <<>> =>
          LET q == lb_out[1]
              K == Cardinality(Matching(q.scope, q.chat_id, q.period))
          IN Len(q.result.rows) = Min(per_page, Max(0, K - per_page * (q.page - 1)))
    /\ lb_out = <<>> /\ rec_pc = <<>> =>
          \A scope \in Scopes, c \in Chats :
              LET all == listed_upto(scope, c, "all_time", MaxPage, "natural")
                  K == Cardinality(Matching(scope, c, "all_time"))
              IN /\ \A i, j \in 1..Len(all) : all[i] = all[j] => i = j
                 /\ K <= MaxPage * per_page =>
                       {all[i] : i \in 1..Len(all)} = Matching(scope, c, "all_time")
                 /\ all = listed_upto(scope, c, "all_time", MaxPage, "reverse")

\* C10: a query is answered with a Previous button exactly when its page is beyond
\* the first, and with a Next button exactly when more than page * 5 entries match
\* its scope, chat and period.
C10_PrevNext ==
    lb_out # <<>> =>
        LET q == lb_out[1]
            K == Cardinality(Matching(q.scope, q.chat_id, q.period))
        IN /\ q.result.prev = (q.page > 1)
           /\ q.result.next = (K > q.page * per_page)

-----------------------------------------------------------------------------
(* C11 *)

\* the rows of a page are in descending order of score
descending(rows) == \A i, j \in 1..Len(rows) : i < j => rows[i][2] >= rows[j][2]

\* C11: a group leaderboard query for chat c and period p lists, within its page,
\* players whose counter for p in chat c is positive, each with that counter, in
\* descending order, and as many of them as the page slice of the matching players
\* holds; so a player who has won in chat c is on one of c's pages.
C11_GroupLeaderboard ==
    (lb_out # <<>> /\ lb_out[1].scope = "group") =>
        LET q == lb_out[1]
            rows == q.result.rows
            M == Matching("group", q.chat_id, q.period)
        IN /\ \A k \in 1..Len(rows) :
                 /\ rows[k][1] \in M
                 /\ rows[k][2] = ChatCount(scores_coll, variant, rows[k][1], q.chat_id, q.period)
           /\ descending(rows)
           /\ Len(rows) = Min(per_page, Max(0, Cardinality(M) - per_page * (q.page - 1)))

-----------------------------------------------------------------------------
(* C12 *)

\* the achievements a stats record holds, and the elements of a list
achievements_of(user_stats) == GetKey(user_stats, "achievements", {})
elements(list) == {list[i] : i \in 1..Len(list)}

\* two calls of check_achievements in a row, and the wins that report achievements
C12_State ==
    \A u \in Players :
        LET first == newly_unlocked(stats_coll[u])
            stats1 == check_achievements(stats_coll, u)
        IN /\ \A a \in elements(ACHIEVEMENTS) :
                 (condition(a, stats_coll[u]) /\ a \notin achievements_of(stats_coll[u]))
                     <=> a \in elements(first)
           /\ achievements_of(stats1[u]) = achievements_of(stats_coll[u]) \cup elements(first)
           /\ newly_unlocked(stats1[u]) = <<>>
           /\ check_achievements(stats1, u) = stats1
           /\ variant = "B" =>
                 \A c \in Chats, text \in GuessTexts :
                     LET e == handle_guess_B_effect(c, u, text)
                     IN /\ elements(e.reply.unlocked) \cap achievements_of(stats_coll[u]) = {}
                        /\ elements(e.reply.unlocked) \subseteq achievements_of(e.stats[u])
                        /\ Cardinality(elements(e.reply.unlocked)) = Len(e.reply.unlocked)

\* no step takes an achievement away
C12_Step ==
    \A u \in Players : achievements_of(stats_coll[u]) \subseteq achievements_of(stats_coll'[u])

\* C12: check_achievements called twice in a row unlocks on the first call what the
\* stats qualify for and nothing on the second; an achievement is reported as
\* newly unlocked only when the player did not hold it, it is held from then on,
\* and no step removes an achievement from a player.
C12_AchievementsIdempotent == []C12_State /\ [][C12_Step]_vars

\* a player holds first_win and ten_wins: the second win did not unlock first_win again
C12_Witness ==
    \E u \in Players :
        /\ {"first_win", "ten_wins"} \subseteq achievements_of(stats_coll[u])
        /\ Wins(stats_coll, u) = TenWins
        /\ newly_unlocked(stats_coll[u]) = <<>>

-----------------------------------------------------------------------------
(* C13 *)

\* with t the time of player u's last allowed attempt: before t + RATE_LIMIT every
\* attempt of u, in any chat, is answered "slow down" and leaves everything as it
\* is; from t + RATE_LIMIT on (or when there was none) the attempt is allowed and
\* arms the gate of u, and of u only, at the time it is
C13_State ==
    \A u \in Players, c \in Chats, text \in GuessTexts :
        LET t == user_last_guess[u]
            e == guess_effect(c, u, text)
        IN IF t # NoTime /\ now < t + RATE_LIMIT
           THEN e = [Cur EXCEPT !.reply = Reply("slow_down", c, 0)]
           ELSE /\ e.reply.kind # "slow_down"
                /\ e.ulg = [user_last_guess EXCEPT ![u] = now]

\* the gate of a player changes only by an allowed attempt of that player, which
\* arms it at the present time, or by running out RATE_LIMIT seconds after it was armed
C13_Step ==
    \A u \in Players :
        user_last_guess'[u] # user_last_guess[u] =>
            \/ user_last_guess'[u] = now /\ now' = now
            \/ /\ user_last_guess'[u] = NoTime
               /\ user_last_guess[u] # NoTime
               /\ now' >= user_last_guess[u] + RATE_LIMIT

\* C13: once an attempt of a player is allowed at time t, every attempt of that
\* player before t + RATE_LIMIT is rejected as rate limited and reaches no game, and
\* an attempt at or after t + RATE_LIMIT is allowed, whatever the chat and whatever
\* the other players do.
C13_RateLimit == []C13_State /\ [][C13_Step]_vars

\* a player was allowed at time 0, and again RATE_LIMIT seconds later
C13_Witness ==
    \E u \in Players :
        /\ now = RATE_LIMIT
        /\ user_last_guess[u] = now
        /\ GetKey(stats_coll[u], "total_guesses", 0) = 2
        /\ \E v \in Players \ {u} : user_last_guess[v] = NoTime

-----------------------------------------------------------------------------
(* C14 *)

\* the time (doubled) at which the coroutine of a game runs its timeout
timeout_time(task) ==
    IF task.pc = "sleep1" THEN task.wake + DEFAULT_SETTINGS_B["timeout"].n ELSE task.wake

\* what the coroutine leaves behind when it wakes up
task_effect(task) ==
    CASE task.pc = "sleep1" -> game_tasks_reminder_effect(task)
      [] task.pc = "sleep2" -> game_tasks_timeout_effect(task)
      [] task.pc = "sleep" -> timeout_game_effect(task)

\* the coroutine's sleep is over
due(task) == 2 * now >= task.wake

\* a later game was started in the chat of the coroutine: its own game is resolved
stale(task) ==
    \E newer \in tasks : newer.chat = task.chat /\ timeout_time(newer) > timeout_time(task)

\* C14: when the reminder or the timeout scheduled for a game wakes up after that
\* game was resolved, it does nothing, even if a newer game of the same chat is
\* in progress: it removes no game and sends no message.
C14_StaleTimerNoOp ==
    \A task \in tasks :
        (due(task) /\ stale(task)) =>
            /\ task_effect(task).games = games_coll
            /\ task_effect(task).reply = NoReply

-----------------------------------------------------------------------------
(* SpecLive: the game of one chat, with the clock running on until every       *)
(* coroutine has woken up.  The event loop runs a coroutine whose sleep is     *)
(* over, and time passes: these steps are weakly fair.                          *)

LiveChats == {"c1"}

\* a second passes after MaxTime, while a coroutine is still asleep
TickLive ==
    /\ now >= MaxTime
    /\ tasks # {}
    /\ \A task \in tasks : 2 * now < task.wake
    /\ now' = now + 1
    /\ user_last_guess' =
         [u \in Players |->
            IF variant = "B" /\ user_last_guess[u] # NoTime
               /\ now + 1 - user_last_guess[u] >= RATE_LIMIT
            THEN NoTime ELSE user_last_guess[u]]
    /\ UNCHANGED <<variant, games_coll, scores_coll, stats_coll, bot_stats, tasks,
                   win_log, commands, aux>>

NextLive == Game_step(LiveChats) \/ TickLive

SpecLive ==
    /\ Init
    /\ [][NextLive]_vars
    /\ WF_vars(Tick)
    /\ WF_vars(TickLive)
    /\ WF_vars(\E task \in tasks : game_tasks_reminder(task))
    /\ WF_vars(\E task \in tasks : game_tasks_timeout(task))
    /\ WF_vars(\E task \in tasks : timeout_game(task))

-----------------------------------------------------------------------------
(* C15 *)

\* C15: every game that is started is eventually removed, by its timeout if
\* nothing resolves it before (the coroutines being run when their sleep is over),
\* and a /new in that chat then starts a game.
C15_EventuallyDestroyed ==
    \A c \in LiveChats :
        IsSession(c) ~>
            (~HasGame(c) /\ \A e \in new_game_effects(c) : e.reply.kind = "new_game")

\* the timeout of a game in progress is due: it removes the game and announces the word
C15_Witness ==
    \E c \in LiveChats, task \in tasks :
        /\ IsSession(c)
        /\ task.chat = c
        /\ task.pc \in {"sleep2", "sleep"}
        /\ due(task)
        /\ ~stale(task)
        /\ task_effect(task).games[c] = <<>>
        /\ task_effect(task).reply.kind = "game_ended"
        /\ bot_stats.guesses_made = 0

-----------------------------------------------------------------------------
(* C16 *)

\* the replies that turn a guess down
Rejections == {"slow_down", "you_are_banned", "invalid_guess", "not_valid_word"}

\* the text of player u in chat c is to be rejected: the player is rate limited, the
\* chat has no game, the player is banned from it, or the guess has the wrong
\* length, is not alphabetic or is not a word of the list
rejected(c, u, text) ==
    LET guess == strip(lower(text))
    IN \/ limited(u)
       \/ ~HasGame(c)
       \/ /\ HasGame(c)
          /\ \/ variant = "B" /\ u \in GetKey(Game(c), "banned", {})
             \/ IntV(Len(guess)) # SettingsOf(c)["word_length"]
             \/ ~isalpha(guess)
             \/ guess \notin WORDS

\* C16: a guess that is rejected changes neither the game records (guesses,
\* players, teams, settings, banned players; the game stays) nor the scores, the
\* players' stats or the bot's stats, and records no win.
C16_RejectedGuessFrame ==
    \A c \in Chats, u \in Players, text \in GuessTexts :
        rejected(c, u, text) =>
            LET e == guess_effect(c, u, text)
            IN /\ e.games = games_coll
               /\ e.scores = scores_coll
               /\ e.stats = stats_coll
               /\ e.bot = bot_stats
               /\ e.wins = win_log
               /\ e.tasks = tasks
               /\ HasGame(c) => e.reply.kind \in Rejections

\* a player whose attempt passed the rate limiter has no guess on record, in a game
\* that has none either; the game turns down a text for each of the reasons
C16_Witness ==
    \E c \in AdminChats, u \in Players :
        /\ IsSession(c)
        /\ Guesses(c) = <<>>
        /\ bot_stats = [games_started |-> 1, guesses_made |-> 0]
        /\ user_last_guess[u] # NoTime
        /\ stats_coll[u] = <<>>
        /\ \A v \in Players \ {u} :
              {guess_effect(c, v, text).reply.kind : text \in GuessTexts}
                  \cap Rejections = {"invalid_guess", "not_valid_word"}

-----------------------------------------------------------------------------
(* C17 *)

\* the players banned from the game of chat c
banned_of(game) == GetKey(game, "banned", {})

\* what each /settings, /ban and /kick command would leave behind in chat c (B)
admin_effects(c) ==
    {update_settings_B_effect(c, is_admin, a[1], a[2]) :
        is_admin \in BOOLEAN, a \in SettingArgs}
    \cup {ban_user_effect(c, is_admin, u) : is_admin \in BOOLEAN, u \in Players}
    \cup {kick_user_effect(c, is_admin, u) : is_admin \in BOOLEAN, u \in Players}

\* a banned player's guess is turned down and recorded nowhere, and no admin
\* command lifts the ban
C17_State ==
    \A c \in Chats, p \in Players :
        (variant = "B" /\ HasGame(c) /\ p \in banned_of(Game(c))) =>
            /\ \A text \in GuessTexts :
                  LET e == guess_effect(c, p, text)
                  IN /\ e.games = games_coll
                     /\ e.reply.kind = IF limited(p) THEN "slow_down" ELSE "you_are_banned"
            /\ \A e \in admin_effects(c) :
                  e.games[c] # <<>> /\ p \in banned_of(Head(e.games[c]))

\* no step lifts a ban while the game stays
C17_Step ==
    \A c \in Chats :
        (HasGame(c) /\ games_coll'[c] # <<>>) =>
            banned_of(Game(c)) \subseteq banned_of(Head(games_coll'[c]))

\* C17: once a player is banned from a game, every guess of that player in that
\* game is turned down (as banned, when the rate limiter lets it through) and
\* appends nothing, as long as the game exists: neither /settings nor /kick nor
\* any other step takes the player off the banned list.
C17_BanPersists == []C17_State /\ [][C17_Step]_vars

\* a player who has guessed in a game is banned from it and sends a guess
C17_Witness ==
    \E c \in AdminChats, p \in Players :
        /\ IsSession(c)
        /\ p \in banned_of(Game(c))
        /\ \E i \in 1..Len(Guesses(c)) : Guesses(c)[i][1] = p
        /\ ~limited(p)
        /\ guess_effect(c, p, Target(c)).reply.kind = "you_are_banned"

-----------------------------------------------------------------------------
(* C18 *)

\* the players of a team of the game, none when the game has no such team
team_of(game, team) ==
    IF "teams" \in DOMAIN game /\ team \in DOMAIN game.teams THEN game.teams[team] ELSE {}

\* a game in team mode has its two teams
teams_match_mode(game) ==
    game.settings["mode"] = StrV("team") => DOMAIN game.teams = {"team1", "team2"}

\* C18: /kick of player p by an admin, in a game in progress, leaves p in none of
\* players, team1 and team2, bans nobody and leaves the guesses as they are; and
\* a player who is neither banned nor rate limited has a guess that is a listed
\* word of the right length accepted, kicked or not (in a game whose teams are
\* those of its mode).
C18_KickRosterOnly ==
    \A c \in Chats, p \in Players :
        (variant = "B" /\ IsSession(c)) =>
            /\ LET e == kick_user_effect(c, TRUE, p)
                   game == Head(e.games[c])
               IN /\ e.reply.kind = "kicked"
                  /\ p \notin game.players
                  /\ p \notin team_of(game, "team1")
                  /\ p \notin team_of(game, "team2")
                  /\ banned_of(game) = banned_of(Game(c))
                  /\ game.guesses = Game(c).guesses
            /\ \A text \in GuessTexts :
                  (~rejected(c, p, text) /\ teams_match_mode(Game(c))) =>
                      LET e == guess_effect(c, p, text)
                      IN \/ e.games[c] = <<>>
                         \/ Head(e.games[c]).guesses = Append(Game(c).guesses, <<p, strip(lower(text))>>)

-----------------------------------------------------------------------------
(* C19 *)

\* the value is a positive integer
positive_int(v) == v.t = "int" /\ v.n > 0

\* the settings are well-formed: the three numbers are positive integers, and the
\* theme and the mode, in the program that has them, are of their enumerations
well_formed(settings) ==
    /\ \A k \in {"max_guesses", "word_length", "timeout"} :
          k \in DOMAIN settings /\ positive_int(settings[k])
    /\ "theme" \in DOMAIN settings =>
          settings["theme"] \in {StrV(x) : x \in {"default", "dark", "light"}}
    /\ "mode" \in DOMAIN settings =>
          settings["mode"] \in {StrV(x) : x \in {"standard", "team", "competitive"}}

\* what "/settings key value" of an admin would leave behind in chat c
settings_effect(c, key, value) ==
    IF variant = "B" THEN update_settings_B_effect(c, TRUE, key, value)
    ELSE update_settings_W_effect(c, TRUE, key, value)

\* C19: the settings of every game are well-formed, a /settings command leaves
\* them well-formed, and one that is answered "invalid setting" changes nothing.
C19_SettingsWellFormed ==
    \A c \in Chats :
        IsSession(c) =>
            /\ well_formed(SettingsOf(c))
            /\ \A a \in SettingArgs :
                  LET e == settings_effect(c, a[1], a[2])
                      after == IF variant = "B" THEN Head(e.games[c]).settings
                               ELSE eval(Head(e.games[c]).settings)
                  IN /\ well_formed(after)
                     /\ e.reply.kind = "invalid_setting" => e.games = games_coll

-----------------------------------------------------------------------------
(* C20 *)

\* what every handler and every coroutine that is asleep would leave behind if it
\* ran now for chat c
effects_in(c) ==
    {guess_effect(c, u, text) : u \in Players, text \in GuessTexts}
    \cup new_game_effects(c)
    \cup {end_game_effect(c, is_admin) : is_admin \in BOOLEAN}
    \cup {settings_effect(c, a[1], a[2]) : a \in SettingArgs}
    \cup (IF variant = "B" THEN admin_effects(c) ELSE {})
    \cup {task_effect(task) : task \in {t \in tasks : t.chat = c}}

\* a message to the chat that spells out the word of its game comes with the
\* removal of that game
C20_State ==
    \A c \in Chats :
        IsSession(c) =>
            \A e \in effects_in(c) :
                (e.reply.chat = c /\ e.reply.word = Target(c)) => e.games[c] = <<>>

\* the word of a game stays what it is as long as the game is there
C20_Step ==
    \A c \in Chats :
        (IsSession(c) /\ games_coll'[c] # <<>>) =>
            /\ "word" \in DOMAIN Head(games_coll'[c])
            /\ Head(games_coll'[c]).word = Target(c)

\* C20: no message spells out the target word of a game that stays in progress:
\* the messages with the word are those of the win, of the last guess, of the
\* timeout and of /end, which remove the game; and the word of a game never
\* changes while the game exists.
C20_TargetSecret == []C20_State /\ [][C20_Step]_vars

\* a game with a guess on record has been through an admin command, its word
\* unchanged and untold; /end would now tell it and remove the game
C20_Witness ==
    \E c \in AdminChats :
        /\ IsSession(c)
        /\ Len(Guesses(c)) = 1
        /\ commands = 1
        /\ Target(c) \in WORDS
        /\ end_game_effect(c, TRUE).reply.word = Target(c)
        /\ end_game_effect(c, TRUE).games[c] = <<>>
        /\ \A u \in Players : guess_effect(c, u, Guesses(c)[1][2]).reply.word # Target(c)

-----------------------------------------------------------------------------
(* C21 *)

\* the messages that tell the end of a game
Resolutions == {"win", "game_over", "game_ended"}

\* a game record as new_game writes it: no guess, no player, nobody in a team,
\* nobody banned
fresh(game) ==
    IF variant = "B"
    THEN /\ game.guesses = <<>>
         /\ game.players = {}
         /\ \A team \in DOMAIN game.teams : game.teams[team] = {}
         /\ banned_of(game) = {}
    ELSE /\ game.guesses = EmptyText
         /\ game.players = EmptyText

\* whatever resolves the game of a chat leaves the chat without a game, and a
\* /new that starts a game starts a fresh one
C21_State ==
    \A c \in Chats :
        /\ Len(games_coll[c]) <= 1
        /\ \A e \in effects_in(c) :
              /\ (e.reply.kind \in Resolutions /\ e.reply.chat = c) => e.games[c] = <<>>
              /\ e.reply.kind = "new_game" =>
                    /\ ~HasGame(c)
                    /\ Len(e.games[c]) = 1
                    /\ fresh(Head(e.games[c]))

\* the game a chat has after a step that found it without one is fresh
C21_Step ==
    \A c \in Chats :
        (~HasGame(c) /\ games_coll'[c] # <<>> /\ "word" \in DOMAIN Head(games_coll'[c])) =>
            /\ Len(games_coll'[c]) = 1
            /\ LET game == Head(games_coll'[c])
               IN IF variant = "B"
                  THEN /\ game.guesses = <<>> /\ game.players = {}
                       /\ \A team \in DOMAIN game.teams : game.teams[team] = {}
                       /\ banned_of(game) = {}
                  ELSE game.guesses = EmptyText /\ game.players = EmptyText

\* C21: a game that is resolved (won, out of guesses, timed out, ended by an
\* admin) is removed, leaving the chat with no game; and the next /new that
\* succeeds there starts a game with no guess, no player, empty teams and nobody
\* banned, whatever the game before held.
C21_DestructionComplete == []C21_State /\ [][C21_Step]_vars

\* the second game of the chat, fresh, after a first one in which a guess was
\* accepted and an admin command carried out
C21_Witness ==
    \E c \in AdminChats :
        /\ IsSession(c)
        /\ bot_stats.games_started = 2
        /\ bot_stats.guesses_made >= 1
        /\ commands = 1
        /\ Guesses(c) = <<>>
        /\ variant = "B" => Game(c).players = {} /\ banned_of(Game(c)) = {}

-----------------------------------------------------------------------------
(* C22 *)

\* the guess log of a game record
guesses_in(game) ==
    IF variant = "B" THEN GetKey(game, "guesses", <<>>)
    ELSE IF game.guesses # EmptyText THEN eval(game.guesses) ELSE <<>>

\* log is old, or old with entries behind it
prefix(old, log) == Len(old) <= Len(log) /\ SubSeq(log, 1, Len(old)) = old

\* an accepted guess puts one entry at the end of the log, and /settings changes
\* nothing of the record but the settings
C22_State ==
    \A c \in Chats :
        IsSession(c) =>
            /\ \A u \in Players, text \in GuessTexts :
                  LET e == guess_effect(c, u, text)
                  IN e.games[c] # <<>> =>
                        guesses_in(Head(e.games[c])) \in
                            {Guesses(c), Append(Guesses(c), <<u, strip(lower(text))>>)}
            /\ \A a \in SettingArgs :
                  LET e == settings_effect(c, a[1], a[2])
                  IN /\ Len(e.games[c]) = 1
                     /\ [Head(e.games[c]) EXCEPT !.settings = Game(c).settings] = Game(c)

\* the log of a game only grows, at its end and by one entry at a time
C22_Step ==
    \A c \in Chats :
        (IsSession(c) /\ games_coll'[c] # <<>>) =>
            /\ prefix(Guesses(c), guesses_in(Head(games_coll'[c])))
            /\ Len(guesses_in(Head(games_coll'[c]))) <= Len(Guesses(c)) + 1

\* C22: the guess log of a game is append-only: an accepted guess adds one entry
\* at the end, and over every step (guesses, /settings, /ban, /kick, the reminder)
\* the log before is a prefix of the log after; /settings changes the settings
\* only, not the word, the log, the players, the teams or the banned players.
C22_GuessLogAppendOnly == []C22_State /\ [][C22_Step]_vars

\* a game with a guess in its log has had its settings changed
C22_Witness ==
    \E c \in AdminChats :
        /\ IsSession(c)
        /\ Len(Guesses(c)) = 1
        /\ commands = 1
        /\ "length" \in DOMAIN SettingsOf(c)

-----------------------------------------------------------------------------
(* C23 *)

\* C23: once an admin's "/settings length n" has been carried out on a game, a
\* guess whose length is not n is turned down in that game (as of the wrong
\* length, unless the player is rate limited or banned) and is not recorded.
C23_WordLengthGoverns ==
    \A c \in Chats :
        (IsSession(c) /\ "length" \in DOMAIN SettingsOf(c)) =>
            \A u \in Players, text \in GuessTexts :
                Len(strip(lower(text))) # SettingsOf(c)["length"].n =>
                    LET e == guess_effect(c, u, text)
                    IN /\ e.games = games_coll
                       /\ e.reply.kind \in {"invalid_guess", "slow_down", "you_are_banned"}

-----------------------------------------------------------------------------
(* C24 *)

\* what the handlers other than new_game, and the coroutines, would leave behind
\* in chat c
other_effects(c) ==
    {guess_effect(c, u, text) : u \in Players, text \in GuessTexts}
    \cup {end_game_effect(c, is_admin) : is_admin \in BOOLEAN}
    \cup {settings_effect(c, a[1], a[2]) : a \in SettingArgs}
    \cup (IF variant = "B" THEN admin_effects(c) ELSE {})
    \cup {task_effect(task) : task \in {t \in tasks : t.chat = c}}

\* C24: a game record exists only because /new started it: every record has a
\* target word and a guess log, and in a chat without a game neither a guess nor
\* /end, /settings, /ban, /kick nor a coroutine leaves a record behind, so that
\* /new starts a game there.
C24_OnlyCreateCreates ==
    \A c \in Chats :
        /\ HasGame(c) =>
              /\ IsSession(c)
              /\ variant = "B" => "guesses" \in DOMAIN Game(c)
        /\ ~HasGame(c) =>
              /\ \A e \in other_effects(c) : e.games[c] = <<>>
              /\ \A e \in new_game_effects(c) : e.reply.kind = "new_game"

-----------------------------------------------------------------------------
(* C25 *)

\* C25: when the reminder of a game in progress is due, the count it sends is the
\* game's present max_guesses less the present length of its guess log, and it
\* leaves the game as it is.
C25_ReminderCount ==
    \A task \in tasks :
        (task.pc = "sleep1" /\ due(task) /\ ~stale(task) /\ IsSession(task.chat)) =>
            LET e == task_effect(task)
                c == task.chat
            IN /\ e.reply.kind = "reminder"
               /\ e.reply.left = MaxGuessesOf(c).n - Len(Guesses(c))
               /\ e.games = games_coll

-----------------------------------------------------------------------------
(* C26 *)

\* the wins of player u credited to a team
team_score(coll, u, team) ==
    IF DocsOf(coll, u) = {} THEN 0 ELSE GetKey(coll[First(DocsOf(coll, u))].teams, team, 0)

\* the team of the guess that comes after n accepted guesses, and the other team
turn(n) == IF n % 2 = 0 THEN "team1" ELSE "team2"
other_team(team) == IF team = "team1" THEN "team2" ELSE "team1"

\* C26: in a game in team mode the player of an accepted guess joins team1 when
\* an even number of guesses was accepted before it and team2 when an odd number
\* was, whoever the player is; and a win is credited to the team of the winning
\* guess.
C26_RoundRobinTeams ==
    \A c \in Chats, u \in Players, text \in GuessTexts :
        ( /\ variant = "B"
          /\ IsSession(c)
          /\ SettingsOf(c)["mode"] = StrV("team")
          /\ teams_match_mode(Game(c))
          /\ ~rejected(c, u, text) ) =>
            LET e == guess_effect(c, u, text)
                team == turn(Len(Guesses(c)))
            IN IF strip(lower(text)) = Target(c)
               THEN /\ team_score(e.scores, u, team) = team_score(scores_coll, u, team) + 1
                    /\ team_score(e.scores, u, other_team(team))
                          = team_score(scores_coll, u, other_team(team))
               ELSE e.games[c] # <<>> =>
                    /\ Head(e.games[c]).teams[team] = Game(c).teams[team] \cup {u}
                    /\ Head(e.games[c]).teams[other_team(team)]
                          = Game(c).teams[other_team(team)]

\* the second guess of a team game won it: the win is credited to team2
C26_Witness ==
    \E u \in Players :
        /\ variant = "B"
        /\ win_log # <<>>
        /\ team_score(scores_coll, u, "team2") = 1
        /\ team_score(scores_coll, u, "team1") = 0

-----------------------------------------------------------------------------
(* C27 *)

\* C27: a game has its two teams exactly when its mode is team: in another mode
\* no player is in a team, in team mode team1 and team2 both exist, and a guess
\* that nothing is wrong with is then carried through: it is recorded, or it
\* resolves the game.
C27_TeamsIffTeamMode ==
    \A c \in Chats :
        (variant = "B" /\ IsSession(c)) =>
            IF SettingsOf(c)["mode"] = StrV("team")
            THEN /\ DOMAIN Game(c).teams = {"team1", "team2"}
                 /\ \A u \in Players, text \in GuessTexts :
                       ~rejected(c, u, text) => guess_effect(c, u, text).games # games_coll
            ELSE \A team \in DOMAIN Game(c).teams : Game(c).teams[team] = {}

-----------------------------------------------------------------------------
(* C28 *)

\* C28: when a write to the store fails while a winning guess is handled, nothing
\* of the win is applied: the game, with its guess log, the scores and the
\* player's stats are as they were before the guess.
C28_FailedWinNotApplied ==
    \A c \in Chats, u \in Players, k \in Writes :
        ( /\ variant = "B"
          /\ IsSession(c)
          /\ teams_match_mode(Game(c))
          /\ ~rejected(c, u, Target(c)) ) =>
            LET e == win_interrupted(c, u, Target(c), k)
            IN /\ e.games = games_coll
               /\ e.scores = scores_coll
               /\ e.stats = stats_coll

-----------------------------------------------------------------------------
(* C29 *)

\* C29: in every reachable state the win records agree: each player's wins stat
\* equals the player's all-time counter across chats, which equals the sum of the
\* player's all-time counters of the chats, and the all-time counters across
\* chats of all players add up to the number of games that ended with a win.
C29_WinRecordsAgree ==
    /\ \A u \in Players :
          /\ Wins(stats_coll, u) = GlobalCount(scores_coll, variant, u, "all_time")
          /\ GlobalCount(scores_coll, variant, u, "all_time")
                = SumOver([c \in Chats |-> ChatCount(scores_coll, variant, u, c, "all_time")],
                          Chats)
    /\ LedgerWins = Len(win_log)

\* two players have each won one game, in different chats
C29_Witness ==
    \E u, v \in Players :
        /\ u # v
        /\ Wins(stats_coll, u) = 1
        /\ Wins(stats_coll, v) = 1
        /\ ChatCount(scores_coll, variant, u, "c1", "all_time") = 1
        /\ ChatCount(scores_coll, variant, v, "c2", "all_time") = 1
        /\ Len(win_log) = 2

-----------------------------------------------------------------------------
(* C30 *)

\* C30: every game can be won: its target word has the length of the game's
\* word_length setting and is a word of the list guesses are validated against,
\* so that the target, sent by a player who is neither banned nor rate limited,
\* is accepted and wins: the game is removed and one win is recorded.
C30_SessionWinnable ==
    \A c \in Chats :
        IsSession(c) =>
            /\ IntV(Len(Target(c))) = SettingsOf(c)["word_length"]
            /\ Target(c) \in WORDS
            /\ \A u \in Players :
                  ( /\ ~limited(u)
                    /\ ~(variant = "B" /\ u \in GetKey(Game(c), "banned", {})) ) =>
                      LET e == guess_effect(c, u, Target(c))
                      IN /\ e.games[c] = <<>>
                         /\ Len(e.wins) = Len(win_log) + 1

-----------------------------------------------------------------------------
(* C31 *)

\* C31: in every reachable state a game has fewer recorded guesses than its
\* current max_guesses setting, also after "/settings max_guesses" has changed the
\* setting during the game; so the number of guesses left that the answer to a
\* guess reports is at least 1.
C31_GuessesBelowLimit ==
    \A c \in Chats :
        IsSession(c) =>
            /\ Len(Guesses(c)) < MaxGuessesOf(c).n
            /\ \A u \in Players, text \in GuessTexts :
                  LET e == guess_effect(c, u, text)
                  IN e.reply.kind = "guesses_left" => e.reply.left >= 1

-----------------------------------------------------------------------------
(* C32 *)

\* C32: in every state that handling a guess leaves behind, every achievement
\* whose condition holds of a player's stats (wins >= 1, wins >= TenWins,
\* total_guesses >= HundredGuesses) is among the player's achievements; so a
\* player whose total_guesses reaches the threshold with a guess that does not
\* win has the achievement for it.
C32_AchievementsComplete ==
    variant = "B" =>
        \A u \in Players, a \in elements(ACHIEVEMENTS) :
            condition(a, stats_coll[u]) => a \in achievements_of(stats_coll[u])

====
